---- MODULE Spec2Model ----
(***************************************************************************)
(* raw2font: organising font files by the names found in their metadata.   *)
(*                                                                         *)
(* The repository holds four generations of the same program:              *)
(*   "v1"  src/main.go lines 1-251        (one file, sfnt library only)    *)
(*   "p0"  src/unnamed/part_000           (WalkDir, processFontFile)       *)
(*   "p12" src/unnamed/part_001 + part_002 (main + package fontprocessor)  *)
(*   "v2"  src/main.go lines 253-330 + src/fontprocessor/fontprocessor.go  *)
(*                                                                         *)
(* Conventions.  A Go string is the sequence of its code points, a byte    *)
(* buffer is a sequence over 0..255.  Offsets are Go's, 0-based: s[lo:hi]  *)
(* is Slice(s, lo, hi).  int is 64 bits wide (GOARCH amd64); uint16 and    *)
(* uint32 arithmetic wraps as in the source.                               *)
(***************************************************************************)
EXTENDS Integers, Sequences, FiniteSets, TLC

VARIABLES
    variant,    \* which generation of the program runs
    files,      \* the regular files of the input tree, in walk order
    pos,        \* number of files the walk has visited
    pc,         \* "start", "walk", "done", "fatal" (exit 1), "crashed" (panic)
    fs,         \* output tree: destination path -> name of the input copied there
    outcomes,   \* one record per visited file: what the program did with it
    buf,        \* name-table development: the byte buffer handed to parseNameTable
    recs,       \* name-table development: the name records encoded in buf
    decoded,    \* name-table development: parseNameTable's result on buf
    text,       \* pure-function development: the string argument
    flavour,    \* pure-function development: variant / font type argument
    existing,   \* duplicate development: suffixes already present on disk
    result      \* pure-function development: the function's result

vars == <<variant, files, pos, pc, fs, outcomes, buf, recs, decoded,
          text, flavour, existing, result>>

runVars  == <<variant, files, pos, pc, fs, outcomes>>
nameVars == <<buf, recs, decoded>>
pureVars == <<text, flavour, existing, result>>

-----------------------------------------------------------------------------
(* Go library functions used by the program (package strings, encoding/binary) *)

Slice(s, lo, hi) == SubSeq(s, lo + 1, hi)

\* binary.BigEndian.Uint16(d[i:i+2])
U16(d, i) == d[i + 1] * 256 + d[i + 2]

Min2(a, b) == IF a < b THEN a ELSE b
Max2(a, b) == IF a > b THEN a ELSE b

\* unicode.IsSpace: the Latin-1 spaces and the White_Space code points
\* above them
SpaceSet ==
    {9, 10, 11, 12, 13, 32, 133, 160, 5760, 8232, 8233, 8239, 8287, 12288}
    \cup (8192..8202)

RECURSIVE FieldsFrom(_, _, _)
FieldsFrom(s, i, cur) ==
    IF i > Len(s) THEN (IF cur = <<>> THEN <<>> ELSE <<cur>>)
    ELSE IF s[i] \in SpaceSet
         THEN (IF cur = <<>> THEN FieldsFrom(s, i + 1, <<>>)
               ELSE <<cur>> \o FieldsFrom(s, i + 1, <<>>))
         ELSE FieldsFrom(s, i + 1, Append(cur, s[i]))

\* strings.Fields
Fields(s) == FieldsFrom(s, 1, <<>>)

RECURSIVE Join(_, _)
\* strings.Join
Join(ws, sep) ==
    IF ws = <<>> THEN <<>>
    ELSE IF Len(ws) = 1 THEN ws[1]
    ELSE ws[1] \o sep \o Join(Tail(ws), sep)

\* strings.Contains
Contains(s, sub) ==
    \E i \in 0..(Len(s) - Len(sub)) : Slice(s, i, i + Len(sub)) = sub

\* strings.HasPrefix
HasPrefix(s, p) == Len(s) >= Len(p) /\ Slice(s, 0, Len(p)) = p

\* strings.TrimPrefix
TrimPrefix(s, p) == IF HasPrefix(s, p) THEN Slice(s, Len(p), Len(s)) ELSE s

\* strings.HasSuffix / strings.TrimSuffix
HasSuffix(s, p) == Len(s) >= Len(p) /\ Slice(s, Len(s) - Len(p), Len(s)) = p
TrimSuffix(s, p) == IF HasSuffix(s, p) THEN Slice(s, 0, Len(s) - Len(p)) ELSE s

\* A string is the sequence of its code points.  A byte of a string that
\* is not part of a valid UTF-8 sequence is kept as a value above the code
\* points: no function takes it for a character, and writing the string
\* gives the byte back.
InvalidByte(b) == 1114112 + b
IsInvalidByte(r) == r >= 1114112

\* the length of the UTF-8 sequence a first byte announces, 0 for a byte
\* that opens none
SequenceLength(b) ==
    IF b < 128 THEN 1
    ELSE IF b \in 194..223 THEN 2
    ELSE IF b \in 224..239 THEN 3
    ELSE IF b \in 240..244 THEN 4
    ELSE 0

\* the second bytes a first byte accepts (no overlong forms, no
\* surrogates, nothing above U+10FFFF)
SecondBytes(b) ==
    CASE b = 224 -> 160..191
      [] b = 237 -> 128..159
      [] b = 240 -> 144..191
      [] b = 244 -> 128..143
      [] OTHER   -> 128..191

\* utf8.DecodeRuneInString(s[i-1:]): the rune at the 1-based position i
\* and its width; an invalid sequence gives its first byte with width 1
DecodeRune(s, i) ==
    LET n == SequenceLength(s[i]) IN
    IF n = 1 THEN [r |-> s[i], width |-> 1]
    ELSE IF \/ n = 0
            \/ i + n - 1 > Len(s)
            \/ s[i + 1] \notin SecondBytes(s[i])
            \/ \E k \in 2..(n - 1) : s[i + k] \notin 128..191
    THEN [r |-> InvalidByte(s[i]), width |-> 1]
    ELSE [r |-> CASE n = 2 -> (s[i] - 192) * 64 + (s[i + 1] - 128)
                  [] n = 3 -> (s[i] - 224) * 4096 + (s[i + 1] - 128) * 64
                              + (s[i + 2] - 128)
                  [] n = 4 -> (s[i] - 240) * 262144 + (s[i + 1] - 128) * 4096
                              + (s[i + 2] - 128) * 64 + (s[i + 3] - 128),
          width |-> n]

RECURSIVE DecodeFrom(_, _)
DecodeFrom(s, i) ==
    IF i > Len(s) THEN <<>>
    ELSE LET d == DecodeRune(s, i) IN <<d.r>> \o DecodeFrom(s, i + d.width)

\* string(data) as the functions of package strings read it: the code
\* points of the bytes' UTF-8 sequences
StringOf(data) == DecodeFrom(data, 1)

\* unicode.CaseRanges, the lower-case column: <<first, last, step, delta>>
\* says that the code points first, first + step, ..., last have their
\* lower case delta away (the simple lower-case mappings of the Unicode
\* character database above ASCII, 1407 code points)
LowerCaseRanges ==
    {<<192, 214, 1, 32>>, <<216, 222, 1, 32>>, <<256, 302, 2, 1>>,
     <<304, 304, 1, -199>>, <<306, 310, 2, 1>>, <<313, 327, 2, 1>>,
     <<330, 374, 2, 1>>, <<376, 376, 1, -121>>, <<377, 381, 2, 1>>,
     <<385, 385, 1, 210>>, <<386, 388, 2, 1>>, <<390, 390, 1, 206>>,
     <<391, 391, 1, 1>>, <<393, 394, 1, 205>>, <<395, 395, 1, 1>>,
     <<398, 398, 1, 79>>, <<399, 399, 1, 202>>, <<400, 400, 1, 203>>,
     <<401, 401, 1, 1>>, <<403, 403, 1, 205>>, <<404, 404, 1, 207>>,
     <<406, 406, 1, 211>>, <<407, 407, 1, 209>>, <<408, 408, 1, 1>>,
     <<412, 412, 1, 211>>, <<413, 413, 1, 213>>, <<415, 415, 1, 214>>,
     <<416, 420, 2, 1>>, <<422, 422, 1, 218>>, <<423, 423, 1, 1>>,
     <<425, 425, 1, 218>>, <<428, 428, 1, 1>>, <<430, 430, 1, 218>>,
     <<431, 431, 1, 1>>, <<433, 434, 1, 217>>, <<435, 437, 2, 1>>,
     <<439, 439, 1, 219>>, <<440, 440, 1, 1>>, <<444, 444, 1, 1>>,
     <<452, 452, 1, 2>>, <<453, 453, 1, 1>>, <<455, 455, 1, 2>>,
     <<456, 456, 1, 1>>, <<458, 458, 1, 2>>, <<459, 475, 2, 1>>,
     <<478, 494, 2, 1>>, <<497, 497, 1, 2>>, <<498, 500, 2, 1>>,
     <<502, 502, 1, -97>>, <<503, 503, 1, -56>>, <<504, 542, 2, 1>>,
     <<544, 544, 1, -130>>, <<546, 562, 2, 1>>, <<570, 570, 1, 10795>>,
     <<571, 571, 1, 1>>, <<573, 573, 1, -163>>, <<574, 574, 1, 10792>>,
     <<577, 577, 1, 1>>, <<579, 579, 1, -195>>, <<580, 580, 1, 69>>,
     <<581, 581, 1, 71>>, <<582, 590, 2, 1>>, <<880, 882, 2, 1>>,
     <<886, 886, 1, 1>>, <<895, 895, 1, 116>>, <<902, 902, 1, 38>>,
     <<904, 906, 1, 37>>, <<908, 908, 1, 64>>, <<910, 911, 1, 63>>,
     <<913, 929, 1, 32>>, <<931, 939, 1, 32>>, <<975, 975, 1, 8>>,
     <<984, 1006, 2, 1>>, <<1012, 1012, 1, -60>>, <<1015, 1015, 1, 1>>,
     <<1017, 1017, 1, -7>>, <<1018, 1018, 1, 1>>, <<1021, 1023, 1, -130>>,
     <<1024, 1039, 1, 80>>, <<1040, 1071, 1, 32>>, <<1120, 1152, 2, 1>>,
     <<1162, 1214, 2, 1>>, <<1216, 1216, 1, 15>>, <<1217, 1229, 2, 1>>,
     <<1232, 1326, 2, 1>>, <<1329, 1366, 1, 48>>, <<4256, 4293, 1, 7264>>,
     <<4295, 4295, 1, 7264>>, <<4301, 4301, 1, 7264>>,
     <<5024, 5103, 1, 38864>>, <<5104, 5109, 1, 8>>,
     <<7312, 7354, 1, -3008>>, <<7357, 7359, 1, -3008>>,
     <<7680, 7828, 2, 1>>, <<7838, 7838, 1, -7615>>, <<7840, 7934, 2, 1>>,
     <<7944, 7951, 1, -8>>, <<7960, 7965, 1, -8>>, <<7976, 7983, 1, -8>>,
     <<7992, 7999, 1, -8>>, <<8008, 8013, 1, -8>>, <<8025, 8031, 2, -8>>,
     <<8040, 8047, 1, -8>>, <<8072, 8079, 1, -8>>, <<8088, 8095, 1, -8>>,
     <<8104, 8111, 1, -8>>, <<8120, 8121, 1, -8>>, <<8122, 8123, 1, -74>>,
     <<8124, 8124, 1, -9>>, <<8136, 8139, 1, -86>>, <<8140, 8140, 1, -9>>,
     <<8152, 8153, 1, -8>>, <<8154, 8155, 1, -100>>, <<8168, 8169, 1, -8>>,
     <<8170, 8171, 1, -112>>, <<8172, 8172, 1, -7>>, <<8184, 8185, 1, -128>>,
     <<8186, 8187, 1, -126>>, <<8188, 8188, 1, -9>>,
     <<8486, 8486, 1, -7517>>, <<8490, 8490, 1, -8383>>,
     <<8491, 8491, 1, -8262>>, <<8498, 8498, 1, 28>>, <<8544, 8559, 1, 16>>,
     <<8579, 8579, 1, 1>>, <<9398, 9423, 1, 26>>, <<11264, 11311, 1, 48>>,
     <<11360, 11360, 1, 1>>, <<11362, 11362, 1, -10743>>,
     <<11363, 11363, 1, -3814>>, <<11364, 11364, 1, -10727>>,
     <<11367, 11371, 2, 1>>, <<11373, 11373, 1, -10780>>,
     <<11374, 11374, 1, -10749>>, <<11375, 11375, 1, -10783>>,
     <<11376, 11376, 1, -10782>>, <<11378, 11378, 1, 1>>,
     <<11381, 11381, 1, 1>>, <<11390, 11391, 1, -10815>>,
     <<11392, 11490, 2, 1>>, <<11499, 11501, 2, 1>>, <<11506, 11506, 1, 1>>,
     <<42560, 42604, 2, 1>>, <<42624, 42650, 2, 1>>, <<42786, 42798, 2, 1>>,
     <<42802, 42862, 2, 1>>, <<42873, 42875, 2, 1>>,
     <<42877, 42877, 1, -35332>>, <<42878, 42886, 2, 1>>,
     <<42891, 42891, 1, 1>>, <<42893, 42893, 1, -42280>>,
     <<42896, 42898, 2, 1>>, <<42902, 42920, 2, 1>>,
     <<42922, 42922, 1, -42308>>, <<42923, 42923, 1, -42319>>,
     <<42924, 42924, 1, -42315>>, <<42925, 42925, 1, -42305>>,
     <<42926, 42926, 1, -42308>>, <<42928, 42928, 1, -42258>>,
     <<42929, 42929, 1, -42282>>, <<42930, 42930, 1, -42261>>,
     <<42931, 42931, 1, 928>>, <<42932, 42946, 2, 1>>,
     <<42948, 42948, 1, -48>>, <<42949, 42949, 1, -42307>>,
     <<42950, 42950, 1, -35384>>, <<42951, 42953, 2, 1>>,
     <<42960, 42960, 1, 1>>, <<42966, 42968, 2, 1>>, <<42997, 42997, 1, 1>>,
     <<65313, 65338, 1, 32>>, <<66560, 66599, 1, 40>>,
     <<66736, 66771, 1, 40>>, <<66928, 66938, 1, 39>>,
     <<66940, 66954, 1, 39>>, <<66956, 66962, 1, 39>>,
     <<66964, 66965, 1, 39>>, <<68736, 68786, 1, 64>>,
     <<71840, 71871, 1, 32>>, <<93760, 93791, 1, 32>>,
     <<125184, 125217, 1, 34>>}

\* unicode.ToLower
unicodeToLower(r) ==
    IF r < 128 THEN (IF r \in 65..90 THEN r + 32 ELSE r)
    ELSE LET hit == {e \in LowerCaseRanges :
                        r \in e[1]..e[2] /\ (r - e[1]) % e[3] = 0}
         IN  IF hit = {} THEN r ELSE r + (CHOOSE e \in hit : TRUE)[4]

\* strings.ToLower: strings.Map(unicode.ToLower, s), where an invalid byte
\* comes out as U+FFFD
ToLower(s) ==
    [i \in 1..Len(s) |->
        IF IsInvalidByte(s[i]) THEN 65533 ELSE unicodeToLower(s[i])]

\* strings.ReplaceAll(s, old, new) for a one-character old and a new of any length
RECURSIVE ReplaceAll(_, _, _)
ReplaceAll(s, old, new) ==
    IF s = <<>> THEN <<>>
    ELSE (IF Head(s) = old THEN new ELSE <<Head(s)>>) \o ReplaceAll(Tail(s), old, new)

RECURSIVE TrimLeft(_, _)
TrimLeft(s, cut) ==
    IF s # <<>> /\ Head(s) \in cut THEN TrimLeft(Tail(s), cut) ELSE s

RECURSIVE TrimRight(_, _)
TrimRight(s, cut) ==
    IF s # <<>> /\ s[Len(s)] \in cut THEN TrimRight(Slice(s, 0, Len(s) - 1), cut) ELSE s

\* strings.Trim(s, cutset)
Trim(s, cut) == TrimRight(TrimLeft(s, cut), cut)

\* strings.TrimSpace
TrimSpace(s) == Trim(s, SpaceSet)

-----------------------------------------------------------------------------
(* String literals of the source *)

s_name == <<110, 97, 109, 101>>  \* "name"
s_Regular == <<82, 101, 103, 117, 108, 97, 114>>  \* "Regular"
s_Italic == <<73, 116, 97, 108, 105, 99>>  \* "Italic"
s_Bold == <<66, 111, 108, 100>>  \* "Bold"
s_Unnamed == <<85, 110, 110, 97, 109, 101, 100>>  \* "Unnamed"
s_unnamed == <<117, 110, 110, 97, 109, 101, 100>>  \* "unnamed"
s_Unknown == <<85, 110, 107, 110, 111, 119, 110>>  \* "Unknown"
s_UnknownVF == <<85, 110, 107, 110, 111, 119, 110, 32, 86, 70>>  \* "Unknown VF"
s_spRegular == <<32, 82, 101, 103, 117, 108, 97, 114>>  \* " Regular"
s_vf == <<118, 102>>  \* "vf"
s_FontName == <<47, 70, 111, 110, 116, 78, 97, 109, 101>>  \* "/FontName"
s_ttf == <<46, 116, 116, 102>>  \* ".ttf"
s_otf == <<46, 111, 116, 102>>  \* ".otf"
s_pfa == <<46, 112, 102, 97>>  \* ".pfa"
s_pfb == <<46, 112, 102, 98>>  \* ".pfb"
s_regular == <<114, 101, 103, 117, 108, 97, 114>>  \* "regular"
s_italic == <<105, 116, 97, 108, 105, 99>>  \* "italic"
s_bold == <<98, 111, 108, 100>>  \* "bold"
s_OTTO == <<79, 84, 84, 79>>  \* "OTTO"
s_true == <<116, 114, 117, 101>>  \* "true"
s_ttsig == <<0, 1, 0, 0>>  \* "\x00\x01\x00\x00"

-----------------------------------------------------------------------------
(* FontMetadata and the name-table decoder of fontprocessor.go             *)

\* var metadata FontMetadata
NoMetadata == [FamilyName |-> <<>>, SubfamilyName |-> <<>>, FullName |-> <<>>]

\* A byte slice is its bytes and its capacity.  A slice expression
\* d[lo:hi] panics when hi exceeds the capacity, not the length; the bytes
\* between length and capacity are the zeroes of the allocation.
At(data, k) == IF k < Len(data) THEN data[k + 1] ELSE 0
U16At(data, i) == At(data, i) * 256 + At(data, i + 1)
\* binary.BigEndian.Uint32, kept as two 16-bit halves
U32At(data, i) == [hi |-> U16At(data, i), lo |-> U16At(data, i + 2)]

\* uint32 addition (tableOffset+tableLength), wrapping at 2^32
Add32(a, b) ==
    LET lo == a.lo + b.lo
        hi == a.hi + b.hi + (lo \div 65536)
    IN  [hi |-> hi % 65536, lo |-> lo % 65536]

\* int(x) > n for a uint32 x and a length n below 2^31
GtInt(x, n) == IF x.hi >= 32768 THEN TRUE ELSE x.hi * 65536 + x.lo > n

\* string(nameRunes): UTF-16BE code units become runes, zero units are
\* dropped (lines 236-243); a surrogate becomes U+FFFD in the conversion
RECURSIVE decodeUTF16(_, _)
decodeUTF16(nameBytes, k) ==
    IF k >= Len(nameBytes) - 1 THEN <<>>
    ELSE LET r == U16(nameBytes, k) IN
         (IF r = 0 THEN <<>>
          ELSE IF r \in 55296..57343 THEN <<65533>> ELSE <<r>>)
         \o decodeUTF16(nameBytes, k + 2)

\* string(nameBytes) filtered by strings.Map (lines 245-251): the runes of
\* the UTF-8 sequences, an invalid byte coming out as U+FFFD
decodeMac(nameBytes) ==
    LET str == StringOf(nameBytes)
        runes == [i \in 1..Len(str) |->
                    IF IsInvalidByte(str[i]) THEN 65533 ELSE str[i]]
        keep(r) == ~(r < 32 \/ (r > 126 /\ r < 160))
    IN  SelectSeq(runes, keep)

\* the switch on nameID with every preferred record taking the field
\* (a variant of setName without the guards of lines 265 and 269)
setNamePreferredWins(md, nameID, name) ==
    CASE nameID \in {1, 16} -> [md EXCEPT !.FamilyName = name]
      [] nameID \in {2, 17} -> [md EXCEPT !.SubfamilyName = name]
      [] nameID = 4 -> [md EXCEPT !.FullName = name]
      [] OTHER -> md

\* the switch on nameID, lines 257-272
setName(md, nameID, name) ==
    CASE nameID = 1 -> [md EXCEPT !.FamilyName = name]
      [] nameID = 2 -> [md EXCEPT !.SubfamilyName = name]
      [] nameID = 4 -> [md EXCEPT !.FullName = name]
      [] nameID = 16 -> IF md.FamilyName = <<>>
                        THEN [md EXCEPT !.FamilyName = name] ELSE md
      [] nameID = 17 -> IF md.SubfamilyName = <<>>
                        THEN [md EXCEPT !.SubfamilyName = name] ELSE md
      [] OTHER -> md

\* one name record, lines 215-273: the metadata after it and its log line
nameRecord(nameTable, stringOffset, entryOffset, md) ==
    LET platformID == U16(nameTable, entryOffset)
        nameID     == U16(nameTable, entryOffset + 6)
        length     == U16(nameTable, entryOffset + 8)
        offset     == U16(nameTable, entryOffset + 10)
        nameStart  == stringOffset + offset
        nameEnd    == nameStart + length
        nameBytes  == Slice(nameTable, nameStart, nameEnd)
        name       == IF platformID = 3 \/ platformID = 0
                      THEN decodeUTF16(nameBytes, 0) ELSE decodeMac(nameBytes)
    IN  IF ~(platformID = 0 \/ platformID = 1 \/ platformID = 3)
        THEN [meta |-> md, log |-> <<>>]
        ELSE IF nameEnd > Len(nameTable)
        THEN [meta |-> md,
              log |-> <<[msg |-> "Invalid name table string offset", arg |-> nameID]>>]
        ELSE IF Len(nameBytes) = 0 THEN [meta |-> md, log |-> <<>>]
        ELSE IF (platformID = 3 \/ platformID = 0) /\ Len(nameBytes) % 2 # 0
        THEN [meta |-> md, log |-> <<>>]
        ELSE IF name = <<>> THEN [meta |-> md, log |-> <<>>]
        ELSE [meta |-> setName(md, nameID, name), log |-> <<>>]

RECURSIVE nameRecords(_, _, _, _, _, _)
\* for j := 0; j < int(count); j++, lines 209-274.  Once a record lies past
\* the end of the table so does every later one: the log lines of records
\* j..count-1 are kept as one entry, arg |-> <<j, count-1>>.
nameRecords(nameTable, count, stringOffset, j, md, log) ==
    IF j >= count THEN [meta |-> md, log |-> log]
    ELSE LET entryOffset == 6 + j * 12 IN
         IF Len(nameTable) < entryOffset + 12
         THEN [meta |-> md,
               log |-> Append(log, [msg |-> "Invalid name table entry",
                                    arg |-> <<j, count - 1>>])]
         ELSE LET r == nameRecord(nameTable, stringOffset, entryOffset, md) IN
              nameRecords(nameTable, count, stringOffset, j + 1, r.meta, log \o r.log)

\* lines 279-282
nameTableResult(md, log, beyond) ==
    [meta |-> md, log |-> log, panic |-> FALSE, beyond |-> beyond,
     err |-> IF md.FamilyName = <<>> /\ md.SubfamilyName = <<>> /\ md.FullName = <<>>
             THEN "no metadata found" ELSE ""]

nameTableError(e, beyond) ==
    [meta |-> NoMetadata, log |-> <<>>, panic |-> FALSE, beyond |-> beyond, err |-> e]

\* a slice bound beyond the capacity: runtime panic, the process dies
nameTablePanic ==
    [meta |-> NoMetadata, log |-> <<>>, panic |-> TRUE, beyond |-> TRUE,
     err |-> "panic: slice bounds out of range"]

\* the "name" table found at directory record `offset`, lines 196-275
nameTableAt(data, cap, offset, beyond) ==
    LET tableOffset == U32At(data, offset + 8)
        tableLength == U32At(data, offset + 12)
        past        == beyond \/ offset + 16 > Len(data)
        \* data[tableOffset:], the whole 32-bit offset
        nameTable   == Slice(data, tableOffset.hi * 65536 + tableOffset.lo, Len(data))
    IN  IF offset + 16 > cap THEN nameTablePanic
        ELSE IF GtInt(Add32(tableOffset, tableLength), Len(data))
        THEN nameTableError("invalid name table offset", past)
        ELSE IF GtInt(tableOffset, Len(data)) THEN nameTablePanic
        ELSE IF Len(nameTable) < 6 THEN nameTableError("name table too short", past)
        ELSE LET count        == U16(nameTable, 2)
                 stringOffset == U16(nameTable, 4)
                 r == nameRecords(nameTable, count, stringOffset, 0, NoMetadata, <<>>)
             IN  nameTableResult(r.meta, r.log, past)

RECURSIVE tableDirectory(_, _, _, _, _)
\* for i := 0; i < int(numTables); i++, lines 193-277
tableDirectory(data, cap, numTables, i, beyond) ==
    IF i >= numTables THEN nameTableResult(NoMetadata, <<>>, beyond)
    ELSE LET offset == 12 + i * 16 IN
         IF offset + 4 > cap THEN nameTablePanic
         ELSE IF <<At(data, offset), At(data, offset + 1),
                   At(data, offset + 2), At(data, offset + 3)>> = s_name
         THEN nameTableAt(data, cap, offset, beyond \/ offset + 4 > Len(data))
         ELSE tableDirectory(data, cap, numTables, i + 1,
                             beyond \/ offset + 4 > Len(data))

\* func parseNameTable(data []byte, logWriter io.Writer) (FontMetadata, error)
\*   panic  : the call panicked (slice bounds out of range)
\*   beyond : some read used an index at or past len(data)
parseNameTable(data, cap) ==
    IF Len(data) < 12 THEN nameTableError("data too short for table directory", FALSE)
    ELSE LET numTables == U16(data, 4) IN
         \* 12+numTables*16 is uint16 arithmetic
         IF Len(data) < (12 + numTables * 16) % 65536
         THEN nameTableError("invalid table directory", FALSE)
         ELSE tableDirectory(data, cap, numTables, 0, FALSE)

-----------------------------------------------------------------------------
(* Name-table development: buffers handed to parseNameTable                *)

MaxRecs == 3          \* name records in a well-formed buffer
\* the numbers of name records in a buffer that is then damaged
DamagedLens == {0, 1}

B16(n) == <<n \div 256, n % 256>>

\* a name record as the font's author wrote it
NameRecordSet ==
    { [platformID |-> 3, nameID |-> 1,  value |-> <<65>>],       \* Family "A"
      [platformID |-> 1, nameID |-> 1,  value |-> <<67>>],       \* Family "C"
      [platformID |-> 3, nameID |-> 16, value |-> <<66>>],       \* Preferred Family "B"
      [platformID |-> 1, nameID |-> 16, value |-> <<68>>],       \* Preferred Family "D"
      [platformID |-> 0, nameID |-> 2,  value |-> <<65>>],       \* Subfamily "A"
      [platformID |-> 1, nameID |-> 17, value |-> <<66>>],       \* Preferred Subfamily "B"
      [platformID |-> 3, nameID |-> 4,  value |-> <<88, 89>>],   \* Full "XY"
      [platformID |-> 3, nameID |-> 6,  value |-> <<80>>],       \* PostScript "P"
      [platformID |-> 2, nameID |-> 1,  value |-> <<90>>],       \* ISO platform, not honoured
      [platformID |-> 3, nameID |-> 1,  value |-> <<>>] }        \* empty string

RECURSIVE encodeUTF16(_)
encodeUTF16(s) ==
    IF s = <<>> THEN <<>> ELSE B16(Head(s)) \o encodeUTF16(Tail(s))

\* the bytes of a record's string: UTF-16BE for platforms 0 and 3
encodeName(r) == IF r.platformID = 1 THEN r.value ELSE encodeUTF16(r.value)

RECURSIVE recordBytes(_, _)
recordBytes(rs, off) ==
    IF rs = <<>> THEN <<>>
    ELSE LET r == Head(rs) IN
         B16(r.platformID) \o B16(0) \o B16(0) \o B16(r.nameID)
         \o B16(Len(encodeName(r))) \o B16(off)
         \o recordBytes(Tail(rs), off + Len(encodeName(r)))

RECURSIVE storageBytes(_)
storageBytes(rs) ==
    IF rs = <<>> THEN <<>> ELSE encodeName(Head(rs)) \o storageBytes(Tail(rs))

\* a well-formed sfnt buffer whose only table is a name table holding rs:
\* 12-byte header, one 16-byte directory record at 12, the table at 28
WellFormed(rs) ==
    LET table == B16(0) \o B16(Len(rs)) \o B16(6 + 12 * Len(rs))
                 \o recordBytes(rs, 0) \o storageBytes(rs)
    IN  s_ttsig \o B16(1) \o <<0, 0, 0, 0, 0, 0>>
        \o s_name \o <<0, 0, 0, 0>> \o B16(0) \o B16(28) \o B16(0) \o B16(Len(table))
        \o table

\* os.ReadFile (fontprocessor.go line 23) allocates max(512, size+1) bytes
ReadFileCap(n) == IF n + 1 < 512 THEN 512 ELSE n + 1

Patch16(data, at, v) ==
    [data EXCEPT ![at + 1] = v \div 256, ![at + 2] = v % 256]

RECURSIVE PatchAll(_, _)
PatchAll(data, ps) ==
    IF ps = <<>> THEN data
    ELSE PatchAll(Patch16(data, Head(ps).at, Head(ps).v), Tail(ps))

\* 16-bit fields of the layout of WellFormed: numTables; the halves of the
\* table offset and of the table length; count; stringOffset; the length
\* and the offset of the first name record
DamageSites == {4, 20, 22, 24, 26, 30, 32, 42, 44}
DamageValues(n) == {0, 1, 2, 29, n, n + 1, 4096, 4097, 65535}

\* the faults put into a well-formed buffer of n bytes: one field
\* overwritten; the directory record's tag destroyed and numTables
\* overwritten; the high half of the table offset set to 0xFFFF and the low
\* half overwritten
FaultSet(n) ==
    {<<[at |-> a, v |-> v]>> : a \in DamageSites, v \in DamageValues(n)}
    \cup {<<[at |-> 12, v |-> 0], [at |-> 4, v |-> v]>> : v \in DamageValues(n)}
    \cup {<<[at |-> 20, v |-> 65535], [at |-> 22, v |-> v]>> : v \in DamageValues(n)}

IdleRun ==
    /\ variant = "none" /\ files = <<>> /\ pos = 0 /\ pc = "idle"
    /\ fs = <<>> /\ outcomes = <<>>
IdleNames == buf = [data |-> <<>>, cap |-> 0] /\ recs = <<>> /\ decoded = <<>>
IdlePure == text = <<>> /\ flavour = "none" /\ existing = {} /\ result = <<>>

Decode(data, cap) ==
    /\ buf' = [data |-> data, cap |-> cap]
    /\ decoded' = parseNameTable(data, cap)

InitNames ==
    /\ recs = <<>>
    /\ \E cap \in {Len(WellFormed(<<>>)), ReadFileCap(Len(WellFormed(<<>>)))} :
          /\ buf = [data |-> WellFormed(<<>>), cap |-> cap]
          /\ decoded = parseNameTable(WellFormed(<<>>), cap)
    /\ IdleRun /\ IdlePure

\* one more record in the name table of a well-formed font
AddRecord ==
    /\ Len(recs) < MaxRecs
    /\ \E r \in NameRecordSet :
          /\ recs' = Append(recs, r)
          /\ \E cap \in {Len(WellFormed(recs')), ReadFileCap(Len(WellFormed(recs')))} :
                Decode(WellFormed(recs'), cap)
    /\ UNCHANGED <<runVars, pureVars>>

\* a corrupted font: a fault of FaultSet put into a well-formed buffer
Damage ==
    /\ Len(recs) \in DamagedLens
    /\ buf.data = WellFormed(recs)
    /\ \E f \in FaultSet(Len(buf.data)) :
          /\ \A i \in 1..Len(f) : f[i].at + 2 <= Len(buf.data)
          /\ Decode(PatchAll(buf.data, f), buf.cap)
    /\ UNCHANGED <<recs, runVars, pureVars>>

\* a truncated font: the file ends early
Truncate ==
    /\ Len(recs) \in DamagedLens
    /\ buf.data = WellFormed(recs)
    /\ \E n \in {0, 11, 12, 27, 28, 33, 34, Len(buf.data) - 1} :
          /\ n < Len(buf.data)
          /\ \E cap \in {n, ReadFileCap(n)} : Decode(Slice(buf.data, 0, n), cap)
    /\ UNCHANGED <<recs, runVars, pureVars>>

NextNames == AddRecord \/ Damage \/ Truncate

SpecNames == InitNames /\ [][NextNames]_vars

-----------------------------------------------------------------------------
(* The sfnt library path: getFontMetadata of fontprocessor.go              *)

\* What f.Name(nil, id) returns for each id asked: a name, or an error.
\* golang.org/x/image/font/sfnt is not part of the repository; its choice
\* among the records of a font is an input here.
NameIDs == <<1, 2, 4, 16, 17>>
NotFound == [ok |-> FALSE, name |-> <<>>]
Found(s) == [ok |-> TRUE, name |-> s]

RECURSIVE getFontMetadataFrom(_, _, _)
\* for _, nameID := range []sfnt.NameID{Family, Subfamily, Full, 16, 17}
getFontMetadataFrom(names, k, md) ==
    IF k > Len(NameIDs) THEN md
    ELSE getFontMetadataFrom(names, k + 1,
            IF names[NameIDs[k]].ok
            THEN setName(md, NameIDs[k], names[NameIDs[k]].name) ELSE md)

\* func getFontMetadata(f *sfnt.Font) (FontMetadata, error)
getFontMetadata(names) ==
    LET md == getFontMetadataFrom(names, 1, NoMetadata) IN
    [meta |-> md,
     err |-> IF md.FamilyName = <<>> /\ md.SubfamilyName = <<>> /\ md.FullName = <<>>
             THEN "no metadata found" ELSE ""]

-----------------------------------------------------------------------------
(* Claims about the name-table decoder                                     *)

\* the 32-bit offset and length declared by the directory record at 12
DeclaredPastEnd(data) ==
    LET o == U32At(data, 20)
        l == U32At(data, 24)
    IN  o.hi + l.hi > 0 \/ o.lo + l.lo > Len(data)

HasNameRecordAt12(data) ==
    /\ Len(data) >= 28
    /\ U16(data, 4) >= 1
    /\ Slice(data, 12, 16) = s_name

\* C2: for every buffer passed to parseNameTable every index used to read
\* it lies inside the buffer, the call never panics, and a name table whose
\* declared offset+length exceeds the buffer size yields an error.
C2_ReadsStayInBuffer ==
    /\ ~decoded.panic
    /\ ~decoded.beyond
    /\ (HasNameRecordAt12(buf.data) /\ DeclaredPastEnd(buf.data)) => decoded.err # ""

\* a record parseNameTable can use: honoured platform, non-empty string
Usable(r) == r.platformID \in {0, 1, 3} /\ r.value # <<>>

UsableWithID(rs, id) ==
    LET hit(r) == Usable(r) /\ r.nameID = id IN SelectSeq(rs, hit)

\* the value the claim gives a field fed by a canonical and a preferred id
AgreesWithRecords(got, rs, canonical, preferred) ==
    LET c == UsableWithID(rs, canonical)
        p == UsableWithID(rs, preferred)
    IN  IF c # <<>> THEN got = c[Len(c)].value
        ELSE IF p # <<>> THEN \E i \in 1..Len(p) : got = p[i].value
        ELSE got = <<>>

\* the lookups the library may answer for a font holding the records rs
LibraryAnswers(rs, id) ==
    {NotFound} \cup {Found(rs[i].value) : i \in {j \in 1..Len(rs) : rs[j].nameID = id}}

LibraryViews(rs) ==
    {f \in [{1, 2, 4, 16, 17} -> {NotFound} \cup {Found(rs[i].value) : i \in 1..Len(rs)}] :
        \A id \in {1, 2, 4, 16, 17} : f[id] \in LibraryAnswers(rs, id)}

PreferredOnlyFillsEmpty(got, canonical, preferred) ==
    /\ (canonical.ok /\ canonical.name # <<>>) => got = canonical.name
    /\ (~(canonical.ok /\ canonical.name # <<>>) /\ preferred.ok) => got = preferred.name

\* C3: for every sequence of usable name records, in any order, FamilyName
\* is the value of the last nameID 1 record if there is one and otherwise
\* that of a nameID 16 record, SubfamilyName likewise for 2 and 17; a
\* preferred record never replaces a non-empty canonical value and does
\* fill a field the canonical id left empty, in parseNameTable and in
\* getFontMetadata.
C3_PreferredNeverOverwrites ==
    buf.data = WellFormed(recs) =>
        /\ ~decoded.panic
        /\ AgreesWithRecords(decoded.meta.FamilyName, recs, 1, 16)
        /\ AgreesWithRecords(decoded.meta.SubfamilyName, recs, 2, 17)
        /\ \A names \in LibraryViews(recs) :
              LET m == getFontMetadata(names).meta IN
              /\ PreferredOnlyFillsEmpty(m.FamilyName, names[1], names[16])
              /\ PreferredOnlyFillsEmpty(m.SubfamilyName, names[2], names[17])

\* canonical "A" then preferred "B" decoded to "A", and a preferred
\* subfamily filling the field no canonical record set
C3_Witness ==
    /\ buf.data = WellFormed(recs)
    /\ Len(recs) = 3
    /\ recs[1] = [platformID |-> 3, nameID |-> 1, value |-> <<65>>]
    /\ recs[2] = [platformID |-> 3, nameID |-> 16, value |-> <<66>>]
    /\ recs[3] = [platformID |-> 1, nameID |-> 17, value |-> <<66>>]
    /\ decoded.meta.FamilyName = <<65>>
    /\ decoded.meta.SubfamilyName = <<66>>

-----------------------------------------------------------------------------
(* Signature sniffing, Type 1 header and filename inference (fontprocessor.go) *)

\* func getFontType(data []byte, inputPath string) (string, string, error)
getFontType(data) ==
    IF Len(data) < 4
    THEN [ext |-> s_otf, fontType |-> "opentype", err |-> "data too short"]
    ELSE LET header == Slice(data, 0, 4) IN
         IF header = s_OTTO
         THEN [ext |-> s_otf, fontType |-> "opentype", err |-> ""]
         ELSE IF header = s_ttsig \/ header = s_true
         THEN [ext |-> s_ttf, fontType |-> "truetype", err |-> ""]
         ELSE IF data[1] = 37 /\ data[2] = 33          \* '%' '!'
         THEN [ext |-> s_pfa, fontType |-> "type1", err |-> ""]
         ELSE IF data[1] = 128 /\ data[2] = 1          \* 0x80 0x01
         THEN [ext |-> s_pfb, fontType |-> "type1", err |-> ""]
         ELSE [ext |-> s_otf, fontType |-> "opentype", err |-> "unknown font signature"]

\* func getFontExtension(fontData []byte) (string, error), the same in
\* main.go 175-190, part_000 142-155 and part_002 103-115
getFontExtension(data) ==
    IF Len(data) < 4 THEN [ext |-> <<>>, err |-> "font data too short"]
    ELSE LET header == Slice(data, 0, 4) IN
         IF header = s_OTTO THEN [ext |-> s_otf, err |-> ""]
         ELSE IF header = s_ttsig \/ header = s_true THEN [ext |-> s_ttf, err |-> ""]
         ELSE [ext |-> <<>>, err |-> "unknown font signature"]

Type1ScanLines == 50

RECURSIVE SplitN(_, _, _)
\* strings.SplitN(s, sep, n) for a one-character sep and n > 0
SplitN(s, sep, n) ==
    LET hits == {i \in 1..Len(s) : s[i] = sep} IN
    IF n <= 1 \/ hits = {} THEN <<s>>
    ELSE LET i == CHOOSE k \in hits : \A m \in hits : k <= m IN
         <<Slice(s, 0, i - 1)>> \o SplitN(Slice(s, i, Len(s)), sep, n - 1)

\* the classification of lines 167-173
type1Style(name) ==
    IF Contains(ToLower(name), s_italic) THEN s_Italic
    ELSE IF Contains(ToLower(name), s_bold) THEN s_Bold
    ELSE s_Regular

RECURSIVE type1Lines(_, _)
\* for _, line := range lines, lines 160-177
type1Lines(lines, k) ==
    IF k > Len(lines) THEN [meta |-> NoMetadata, err |-> "no FontName found"]
    ELSE LET parts == Fields(StringOf(lines[k])) IN
         IF HasPrefix(lines[k], s_FontName) /\ Len(parts) >= 2
         THEN LET name == TrimPrefix(parts[2], <<47>>) IN
              [meta |-> [FamilyName |-> name, SubfamilyName |-> type1Style(name),
                         FullName |-> name],
               err |-> ""]
         ELSE type1Lines(lines, k + 1)

\* func parseType1Font(data []byte) (FontMetadata, error).  The lines are
\* split on the byte 0x0A, which is part of no multi-byte sequence;
\* strings.Fields reads each line as UTF-8.
parseType1Font(data) ==
    IF Len(data) >= 2 /\ data[1] = 37 /\ data[2] = 33
    THEN type1Lines(SplitN(data, 10, Type1ScanLines), 1)
    ELSE [meta |-> NoMetadata, err |-> "no FontName found"]

s_maxInt64 == <<57, 50, 50, 51, 51, 55, 50, 48, 51, 54, 56, 53, 52, 55, 55, 53, 56, 48, 55>>  \* "9223372036854775807"
s_minInt64 == <<57, 50, 50, 51, 51, 55, 50, 48, 51, 54, 56, 53, 52, 55, 55, 53, 56, 48, 56>>  \* "9223372036854775808"

\* a <= b for two digit strings of the same length
DigitsLE(a, b) ==
    \/ a = b
    \/ \E i \in 1..Len(a) : a[i] < b[i] /\ \A j \in 1..(i - 1) : a[j] = b[j]

\* _, err := strconv.Atoi(filename); err == nil.  An optional sign, then
\* decimal digits whose value fits a 64-bit int.
AtoiOk(s) ==
    LET signed == s # <<>> /\ s[1] \in {43, 45}
        digits == IF signed THEN Tail(s) ELSE s
        sig    == TrimLeft(digits, {48})
        limit  == IF signed /\ s[1] = 45 THEN s_minInt64 ELSE s_maxInt64
    IN  /\ digits # <<>>
        /\ \A i \in 1..Len(digits) : digits[i] \in 48..57
        /\ \/ Len(sig) < Len(limit)
           \/ Len(sig) = Len(limit) /\ DigitsLE(sig, limit)

\* styles := []string{...}, lines 338-342
styles == <<
        <<99, 111, 110, 100, 101, 110, 115, 101, 100, 32, 101, 120, 116, 114, 97, 108, 105, 103, 104, 116, 32, 105, 116, 97, 108, 105, 99, 115>>,  \* "condensed extralight italics"
        <<99, 111, 110, 100, 101, 110, 115, 101, 100, 32, 101, 120, 116, 114, 97, 108, 105, 103, 104, 116>>,  \* "condensed extralight"
        <<99, 111, 110, 100, 101, 110, 115, 101, 100, 32, 108, 105, 103, 104, 116, 32, 105, 116, 97, 108, 105, 99, 115>>,  \* "condensed light italics"
        <<99, 111, 110, 100, 101, 110, 115, 101, 100, 32, 108, 105, 103, 104, 116>>,  \* "condensed light"
        <<101, 120, 116, 114, 97, 108, 105, 103, 104, 116, 32, 105, 116, 97, 108, 105, 99, 115>>,  \* "extralight italics"
        <<101, 120, 116, 114, 97, 108, 105, 103, 104, 116>>,  \* "extralight"
        <<108, 105, 103, 104, 116, 32, 105, 116, 97, 108, 105, 99, 115>>,  \* "light italics"
        <<108, 105, 103, 104, 116>>,  \* "light"
        <<109, 101, 100, 105, 117, 109, 32, 105, 116, 97, 108, 105, 99, 115>>,  \* "medium italics"
        <<109, 101, 100, 105, 117, 109>>,  \* "medium"
        <<98, 111, 108, 100, 32, 105, 116, 97, 108, 105, 99, 115>>,  \* "bold italics"
        <<98, 111, 108, 100>>,  \* "bold"
        <<105, 116, 97, 108, 105, 99>>,  \* "italic"
        <<114, 101, 103, 117, 108, 97, 114>>   \* "regular"
    >>

\* for _, style := range styles { if strings.Contains(clean,
\* strings.ReplaceAll(style, " ", "")) {...; break} }, lines 343-348
matchStyle(clean) ==
    LET hits == {k \in 1..Len(styles) : Contains(clean, ReplaceAll(styles[k], 32, <<>>))} IN
    IF hits = {} THEN s_Regular
    ELSE styles[CHOOSE k \in hits : \A m \in hits : k <= m]

\* func inferMetadata(filename, fontType string) FontMetadata
inferMetadata(filename, fontType) ==
    LET isNumeric == AtoiOk(filename)
        clean == Join(Fields(ReplaceAll(ReplaceAll(ToLower(filename), 45, <<32>>),
                                        95, <<32>>)), <<32>>)
        words == Fields(clean)
        isVF  == isNumeric \/ Contains(clean, s_vf) \/ fontType = "opentype"
        matched == matchStyle(clean)
        sub   == IF matched = s_Regular /\ Len(words) > 1
                 THEN Join(Slice(words, Max2(0, Len(words) - 2), Len(words)), <<32>>)
                 ELSE matched
        cut   == Join(Slice(words, 0, Max2(0, Len(words) - 2)), <<32>>)
        fam   == IF isNumeric THEN s_UnknownVF
                 ELSE IF cut = <<>> THEN s_UnknownVF ELSE cut
        md    == IF isVF
                 THEN [FamilyName |-> fam, SubfamilyName |-> sub,
                       FullName |-> TrimSpace(fam \o <<32>> \o sub)]
                 ELSE [FamilyName |-> filename, SubfamilyName |-> s_Regular,
                       FullName |-> TrimSpace(filename)]
        md2   == IF md.FamilyName = <<>> THEN [md EXCEPT !.FamilyName = s_Unknown] ELSE md
    IN  IF Len(words) = 0
        THEN [FamilyName |-> filename, SubfamilyName |-> s_Regular, FullName |-> filename]
        ELSE IF md2.FullName = <<>>
             THEN [md2 EXCEPT !.FullName = md2.FamilyName \o s_spRegular]
             ELSE md2

-----------------------------------------------------------------------------
(* File names, sanitization and duplicate resolution, in the four generations *)

\* invalidChars: / \ : * ? < > | "
invalidChars == {47, 92, 58, 42, 63, 60, 62, 124, 34}

ReplaceInvalid(name, new) ==
    [i \in 1..Len(name) |-> IF name[i] \in invalidChars THEN new ELSE name[i]]

\* fontprocessor.go 387-397
sanitizeFileName_v2(name) ==
    LET joined == Join(Fields(ReplaceInvalid(name, 32)), <<32>>) IN
    IF joined = <<>> THEN s_Unnamed ELSE joined

\* main.go 193-207
sanitizeFileName_v1(name) ==
    LET trimmed == Trim(ReplaceInvalid(name, 95), {95, 32}) IN
    IF trimmed = <<>> THEN s_unnamed ELSE trimmed

\* part_000 157-168: the literal is appended when the string is empty
\* before trimming
sanitizeFileName_p0(name) ==
    LET replaced == ReplaceInvalid(name, 95) IN
    Trim(replaced, {95, 32}) \o (IF replaced = <<>> THEN s_unnamed ELSE <<>>)

\* part_002 117-125: the replacer also turns spaces into underscores
sanitizeFileName_p12(name) ==
    LET replaced == [i \in 1..Len(name) |->
                        IF name[i] \in invalidChars \cup {32} THEN 95 ELSE name[i]]
        trimmed  == Trim(replaced, {95, 32})
    IN  IF trimmed = <<>> THEN s_unnamed ELSE trimmed

sanitizeFileName(v, name) ==
    CASE v = "v1" -> sanitizeFileName_v1(name)
      [] v = "p0" -> sanitizeFileName_p0(name)
      [] v = "p12" -> sanitizeFileName_p12(name)
      [] v = "v2" -> sanitizeFileName_v2(name)

\* filepath.Ext: the suffix from the last dot of the last element
Ext(name) ==
    LET dots == {i \in 1..Len(name) : name[i] = 46} IN
    IF dots = {} THEN <<>>
    ELSE Slice(name, (CHOOSE k \in dots : \A m \in dots : m <= k) - 1, Len(name))

\* strings.TrimSuffix(filepath.Base(p), filepath.Ext(p))
Stem(name) == TrimSuffix(name, Ext(name))

RECURSIVE Itoa(_)
\* %d of a non-negative int
Itoa(i) == IF i < 10 THEN <<48 + i>> ELSE Itoa(i \div 10) \o <<48 + (i % 10)>>

\* os.Stat of a name in a destination directory: the directory is its
\* present names, or cannot be searched at all (EACCES)
Stat(dir, name) ==
    IF dir.denied THEN "denied"
    ELSE IF name \in dir.present THEN "present" ELSE "absent"

\* fmt.Sprintf("%s_%d%s", base, i, ext), and "%s %d%s" in fontprocessor.go
Candidate(name, sep, i) ==
    IF i = 0 THEN name ELSE Stem(name) \o <<sep>> \o Itoa(i) \o Ext(name)

\* the loop over the candidates 0..last: the first one that os.IsNotExist
\* reports absent is returned, and the loop gives up when there is none
FirstAbsent(dir, name, sep, last) ==
    LET absent(i) == Stat(dir, Candidate(name, sep, i)) = "absent" IN
    IF \A i \in 0..last : ~absent(i)
    THEN [name |-> <<>>, dup |-> FALSE, err |-> "too many duplicates"]
    ELSE LET first == CHOOSE k \in 0..last :
                          absent(k) /\ \A m \in 0..(k - 1) : ~absent(m)
         IN  [name |-> Candidate(name, sep, first), dup |-> FALSE, err |-> ""]

DupLimit_v1 == 1000
maxAttempts == 1000
DupLimit_p12 == 1000
DupLimit_v2 == 100

\* a resolveDuplicate that returns the path it is given without looking
\* at the directory (a variant of resolveDuplicate_v1 without the os.Stat
\* of line 214)
resolveDuplicate_v1_unchecked(dir, name) == [name |-> name, dup |-> FALSE, err |-> ""]

\* main.go 210-224: candidate i-1 is tested in round i, "_i" is built, and
\* the loop gives up once i > 1000: candidates 0..1000
resolveDuplicate_v1(dir, name) == FirstAbsent(dir, name, 95, DupLimit_v1)

\* part_000 170-186: for i := 0; i < maxAttempts; i++: candidates 0..999
resolveDuplicate_p0(dir, name) == FirstAbsent(dir, name, 95, maxAttempts - 1)

\* part_002 127-141: candidates 0..1000
resolveDuplicate_p12(dir, name) == FirstAbsent(dir, name, 95, DupLimit_p12)

\* fontprocessor.go 399-416: an existing destination is reported as a
\* duplicate; the numbered names are only reached when os.Stat fails with
\* an error other than "not exist"
resolveDuplicate_v2(dir, name) ==
    IF Stat(dir, name) = "present"
    THEN [name |-> <<>>, dup |-> TRUE, err |-> ""]
    ELSE FirstAbsent(dir, name, 32, DupLimit_v2)

resolveDuplicate(v, dir, name) ==
    CASE v = "v1" -> resolveDuplicate_v1(dir, name)
      [] v = "p0" -> resolveDuplicate_p0(dir, name)
      [] v = "p12" -> resolveDuplicate_p12(dir, name)
      [] v = "v2" -> resolveDuplicate_v2(dir, name)

\* isRegularStyle / regularStyles: main.go 93-100, part_000 212-221,
\* part_002 176-183
isRegularStyle(subfamilyName) ==
    \E style \in {s_regular, s_italic, s_bold} : Contains(ToLower(subfamilyName), style)

\* main.go 90-111
subDir_v1(safeFamilyName, subfamilyName) ==
    IF isRegularStyle(subfamilyName) \/ subfamilyName = <<>> THEN safeFamilyName
    ELSE LET style == ReplaceAll(subfamilyName, 32, <<95>>) IN
         safeFamilyName \o <<95>>
            \o sanitizeFileName_v1(IF style = <<>> THEN s_Unknown ELSE style)

\* part_000 93-97
subDir_p0(safeFamilyName, subfamilyName) ==
    IF subfamilyName # <<>> /\ ~isRegularStyle(subfamilyName)
    THEN safeFamilyName \o <<95>>
            \o sanitizeFileName_p0(ReplaceAll(subfamilyName, 32, <<95>>))
    ELSE safeFamilyName

\* func determineSubDir(family, subfamily string) string, part_002 175-189
determineSubDir(family, subfamily) ==
    IF isRegularStyle(subfamily) \/ subfamily = <<>> THEN family
    ELSE LET style == sanitizeFileName_p12(ReplaceAll(subfamily, 32, <<95>>)) IN
         family \o <<95>> \o (IF style = <<>> THEN s_Unknown ELSE style)

RECURSIVE CleanFrom(_, _)
CleanFrom(parts, done) ==
    IF parts = <<>> THEN done
    ELSE LET p == Head(parts) IN
         IF p = <<>> \/ p = <<46>> THEN CleanFrom(Tail(parts), done)
         ELSE IF p = <<46, 46>> /\ done # <<>> /\ done[Len(done)] # <<46, 46>>
         THEN CleanFrom(Tail(parts), Slice(done, 0, Len(done) - 1))
         ELSE CleanFrom(Tail(parts), Append(done, p))

\* filepath.Join(outputDir, elems...) as the cleaned sequence of elements
\* below outputDir; a leading ".." element is a path outside outputDir.
\* No element holds a separator: every generation replaces "/" and "\".
JoinPath(parts) == CleanFrom(parts, <<>>)

-----------------------------------------------------------------------------
(* The metadata resolver and ProcessFontFile of fontprocessor.go           *)

\* An input file: its base name, its directory below the input directory,
\* its bytes, what the operating system does on reading and copying it
\* ("ok", "unreadable", "nocopy": the copy fails half-way), and what the
\* sfnt library makes of it (sfnt.Parse succeeds or not, and the names
\* f.Name returns).
LibIDs == {1, 2, 4, 6, 16, 17}
LibFails == [ok |-> FALSE, names |-> [id \in LibIDs |-> NotFound]]

Stage(name, e) == [stage |-> name, err |-> e]
LogLine(m, e) == [msg |-> m, arg |-> e]

\* the result of parseFont: metadata, extension, the stages tried with the
\* error each returned ("" for nil), the lines written to logWriter, and
\* whether the call panicked
Resolved(md, ext, stages, log) ==
    [meta |-> md, ext |-> ext, stages |-> stages, log |-> log, panic |-> FALSE]

\* the library stage of lines 106-116: its result and its log line
sfntStage(libOk, gm) ==
    IF ~libOk
    THEN [stage |-> Stage("sfnt", "sfnt.Parse failed"),
          log |-> LogLine("Failed to parse font", "sfnt.Parse failed")]
    ELSE [stage |-> Stage("sfnt", gm.err),
          log |-> LogLine("Failed to extract metadata", gm.err)]

\* lines 118-127, given the library stage lib and parseNameTable's result nt
nameTableStage(filename, ft, lib, nt) ==
    IF nt.panic
    THEN [meta |-> NoMetadata, ext |-> ft.ext,
          stages |-> <<lib.stage, Stage("nameTable", nt.err)>>,
          log |-> <<lib.log>>, panic |-> TRUE]
    ELSE IF nt.err = "" /\ nt.meta.FamilyName # <<>>
    THEN Resolved(nt.meta, ft.ext, <<lib.stage, Stage("nameTable", "")>>,
                  <<lib.log>> \o nt.log)
    ELSE Resolved(inferMetadata(filename, ft.fontType), ft.ext,
                  <<lib.stage, Stage("nameTable", nt.err), Stage("filename", "")>>,
                  <<lib.log>> \o nt.log
                     \o <<LogLine("Failed to parse name table", nt.err)>>)

\* case "truetype", "opentype", lines 105-127, given getFontMetadata's
\* result gm
parseSfnt(f, filename, ft, gm) ==
    IF f.lib.ok /\ gm.err = ""
    THEN Resolved(gm.meta, ft.ext, <<Stage("sfnt", "")>>, <<>>)
    ELSE nameTableStage(filename, ft, sfntStage(f.lib.ok, gm),
                        parseNameTable(f.data, ReadFileCap(Len(f.data))))

\* case "type1", lines 97-104, given parseType1Font's result t1
parseType1(filename, ft, t1) ==
    IF t1.err # ""
    THEN Resolved(inferMetadata(filename, ft.fontType), ft.ext,
                  <<Stage("type1", t1.err), Stage("filename", "")>>,
                  <<LogLine("Failed to parse Type 1 metadata", t1.err)>>)
    ELSE Resolved(t1.meta, ft.ext, <<Stage("type1", "")>>, <<>>)

\* lines 90-132, given getFontType's result ft
parseFontAs(f, filename, ft) ==
    IF ft.err # ""
    THEN Resolved(inferMetadata(filename, ft.fontType), ft.ext,
                  <<Stage("signature", ft.err), Stage("filename", "")>>,
                  <<LogLine("Invalid font signature", ft.err)>>)
    ELSE IF ft.fontType = "type1"
    THEN parseType1(filename, ft, parseType1Font(f.data))
    ELSE parseSfnt(f, filename, ft, getFontMetadata(f.lib.names))

\* func parseFont(data []byte, inputPath string, logWriter io.Writer)
parseFont(f) == parseFontAs(f, Stem(f.name), getFontType(f.data))

\* lines 34-44: the filename backfill
backfill(md, filename) ==
    [FamilyName    |-> IF md.FamilyName = <<>> THEN filename ELSE md.FamilyName,
     SubfamilyName |-> IF md.SubfamilyName = <<>> THEN s_Regular ELSE md.SubfamilyName,
     FullName      |-> IF md.FullName = <<>> THEN filename ELSE md.FullName]

\* The output tree is a function from the paths of its files to what was
\* written: the input it came from and whether the copy completed.  A path
\* is its sequence of elements below outputDir.
DirOf(path) == Slice(path, 0, Len(path) - 1)
IsPrefix(p, q) == Len(p) <= Len(q) /\ Slice(q, 0, Len(p)) = p

\* the names os.Stat finds in directory d: its files and its subdirectories
Listing(tree, d) ==
    [present |-> {p[Len(d) + 1] : p \in {q \in DOMAIN tree : IsPrefix(d, q) /\ Len(q) > Len(d)}},
     denied |-> FALSE]

\* os.MkdirAll fails when an element of the path is an existing file
MkdirAllFails(tree, d) == \E k \in 1..Len(d) : Slice(d, 0, k) \in DOMAIN tree

Put(tree, path, from, whole) ==
    [p \in DOMAIN tree \cup {path} |->
        IF p = path THEN [from |-> from, whole |-> whole] ELSE tree[p]]

FileId(f) == f.dir \o <<f.name>>

Outcome(f, status, e, md, dest, pf) ==
    [file |-> FileId(f), status |-> status, err |-> e, meta |-> md, dest |-> dest,
     stages |-> pf.stages, log |-> pf.log]

NotParsed == [stages |-> <<>>, log |-> <<>>]

\* lines 77-84 and their counterparts: the copy, given resolveDuplicate's
\* result rd
copyTo(f, tree, md, dir, rd, pf) ==
    IF rd.err # ""
    THEN [out |-> Outcome(f, "failed", rd.err, md, <<>>, pf), tree |-> tree]
    ELSE IF rd.dup
    THEN [out |-> Outcome(f, "duplicate", "", md, <<>>, pf), tree |-> tree]
    ELSE IF f.io = "nocopy"
    THEN [out |-> Outcome(f, "failed", "copy", md, Append(dir, rd.name), pf),
          tree |-> Put(tree, Append(dir, rd.name), FileId(f), FALSE)]
    ELSE [out |-> Outcome(f, "copied", "", md, Append(dir, rd.name), pf),
          tree |-> Put(tree, Append(dir, rd.name), FileId(f), TRUE)]

\* lines 63-84 and their counterparts: create the directory, resolve the
\* duplicate, copy
place(v, f, tree, md, path, pf) ==
    IF MkdirAllFails(tree, DirOf(path))
    THEN [out |-> Outcome(f, "failed", "mkdir", md, <<>>, pf), tree |-> tree]
    ELSE copyTo(f, tree, md, DirOf(path),
                resolveDuplicate(v, Listing(tree, DirOf(path)), path[Len(path)]), pf)

\* lines 48-61: the destination of metadata md with extension ext
outputPath_v2(f, md, ext) ==
    JoinPath(f.dir \o <<sanitizeFileName_v2(md.FamilyName),
                        sanitizeFileName_v2(md.FullName) \o ext>>)

\* lines 34-84, given parseFont's result pf
processParsed(f, tree, pf, md) ==
    IF pf.panic
    THEN [out |-> Outcome(f, "panic", "slice bounds out of range", NoMetadata, <<>>, pf),
          tree |-> tree]
    ELSE place("v2", f, tree, md, outputPath_v2(f, md, pf.ext), pf)

backfilled(f, tree, pf) == processParsed(f, tree, pf, backfill(pf.meta, Stem(f.name)))

\* func ProcessFontFile(inputDir, inputPath, outputDir string, logWriter io.Writer) error
ProcessFontFile(f, tree) ==
    IF f.io = "unreadable"
    THEN [out |-> Outcome(f, "failed", "read", NoMetadata, <<>>, NotParsed),
          tree |-> tree]
    ELSE backfilled(f, tree, parseFont(f))

-----------------------------------------------------------------------------
(* The earlier generations: sfnt library only                              *)

\* getFontMetadata of main.go 142-172, part_000 121-140, part_002 74-101:
\* the names of ids 1, 2, 4 and 6.  main.go keeps a key for every name the
\* library finds, the other two fail when every name found is empty.
getFontMetadata_old(v, names) ==
    LET val(id) == IF names[id].ok THEN names[id].name ELSE <<>> IN
    [meta |-> [FamilyName |-> val(1), SubfamilyName |-> val(2), FullName |-> val(4)],
     err |-> IF v = "v1"
             THEN (IF \A id \in {1, 2, 4, 6} : ~names[id].ok
                   THEN "no metadata found" ELSE "")
             ELSE (IF \A id \in {1, 2, 4, 6} : val(id) = <<>>
                   THEN "no metadata found" ELSE "")]

subDir_old(v, safeFamilyName, subfamilyName) ==
    CASE v = "v1" -> subDir_v1(safeFamilyName, subfamilyName)
      [] v = "p0" -> subDir_p0(safeFamilyName, subfamilyName)
      [] v = "p12" -> determineSubDir(safeFamilyName, subfamilyName)

\* the filename fallback of main.go 63-73, part_000 70-80, part_002 38-40
fallback_old(got, name) ==
    [FamilyName    |-> IF got.FamilyName = <<>> THEN name ELSE got.FamilyName,
     SubfamilyName |-> got.SubfamilyName,
     FullName      |-> IF got.FullName = <<>> THEN name ELSE got.FullName]

\* the extension, ".ttf" when the signature is unknown (main.go 84-88)
extension_old(fe) == IF fe.err # "" THEN s_ttf ELSE fe.ext

outputPath_old(v, md, extension) ==
    JoinPath(<<subDir_old(v, sanitizeFileName(v, md.FamilyName), md.SubfamilyName),
               sanitizeFileName(v, md.FullName) \o extension>>)

named_old(v, f, tree, md, pf) ==
    place(v, f, tree, md, outputPath_old(v, md, extension_old(getFontExtension(f.data))), pf)

extracted_old(v, f, tree, gm, pf) ==
    IF ~f.lib.ok
    THEN [out |-> Outcome(f, "failed", "parse", NoMetadata, <<>>, pf), tree |-> tree]
    ELSE IF gm.err # ""
    THEN [out |-> Outcome(f, "failed", "metadata", NoMetadata, <<>>, pf), tree |-> tree]
    ELSE named_old(v, f, tree, fallback_old(gm.meta, f.name), pf)

parsed_old(v, f, tree, gm) ==
    extracted_old(v, f, tree, gm,
        [stages |-> <<Stage("sfnt", IF f.lib.ok THEN gm.err ELSE "sfnt.Parse failed")>>,
         log |-> <<>>])

\* the loop body of main.go 38-137, processFontFile of part_000 42-119 and
\* ProcessFontFile of part_002 20-72
processFontFile_old(v, f, tree) ==
    IF f.io = "unreadable"
    THEN [out |-> Outcome(f, "failed", "read", NoMetadata, <<>>, NotParsed),
          tree |-> tree]
    ELSE parsed_old(v, f, tree, getFontMetadata_old(v, f.lib.names))

-----------------------------------------------------------------------------
(* The input trees                                                         *)

s_Helvetica == <<72, 101, 108, 118, 101, 116, 105, 99, 97>>  \* "Helvetica"
s_h1 == <<104, 49>>  \* "h1"
s_h2 == <<104, 50>>  \* "h2"
s_h3 == <<104, 51>>  \* "h3"
s_sub == <<115, 117, 98>>  \* "sub"
s_Arial == <<65, 114, 105, 97, 108>>  \* "Arial"
s_ArialLight == <<65, 114, 105, 97, 108, 32, 76, 105, 103, 104, 116>>  \* "Arial Light"
s_Light == <<76, 105, 103, 104, 116>>  \* "Light"
s_Arial_ttf == <<65, 114, 105, 97, 108, 46, 116, 116, 102>>  \* "Arial.ttf"
s_dotpfa == <<46, 112, 102, 97>>  \* ".pfa"
s_junk == <<106, 117, 110, 107>>  \* "junk"
s_nt4 == <<110, 116, 52>>  \* "nt4"
s_XY == <<88, 89>>  \* "XY"
s_bad == <<98, 97, 100>>  \* "bad"
s_pan == <<112, 97, 110>>  \* "pan"
s_t1_pfa == <<116, 49, 46, 112, 102, 97>>  \* "t1.pfa"
s_Brevia == <<66, 114, 101, 118, 105, 97, 45, 76, 105, 103, 104, 116, 73, 116, 97, 108, 105, 99>>  \* "Brevia-LightItalic"
s_nt1 == <<110, 116, 49>>  \* "nt1"
s_lib0 == <<108, 105, 98, 48>>  \* "lib0"
s_nc == <<110, 99>>  \* "nc"
s_t1e_pfa == <<116, 49, 101, 46, 112, 102, 97>>  \* "t1e.pfa"
s_type1hdr == <<37, 33, 80, 83, 45, 65, 100, 111, 98, 101, 70, 111, 110, 116, 45, 49, 46, 48>>  \* "%!PS-AdobeFont-1.0"
s_fontNameFoo == <<47, 70, 111, 110, 116, 78, 97, 109, 101, 32, 47, 70, 111, 111, 45, 66, 111, 108, 100, 32, 100, 101, 102>>  \* "/FontName /Foo-Bold def"
s_al == <<97, 108>>  \* "al"
s_dd == <<100, 100>>  \* "dd"
s_d1 == <<100, 49>>  \* "d1"
s_dotdot == <<46, 46>>  \* ".."
s_dot == <<46>>  \* "."
s_x == <<120>>  \* "x"
s_lf == <<108, 102>>  \* "lf"
\* Log_<time.Now() as 20060102150405>.txt, for one time of the run
s_logFileName == <<76, 111, 103, 95, 50, 48, 50, 54, 49, 48, 51, 49, 48, 52, 48, 48, 48, 48, 46, 116, 120, 116>>
s_sl == <<115, 108>>  \* "sl"
s_slash == <<47>>  \* "/"
s_fontNameEmpty == <<47, 70, 111, 110, 116, 78, 97, 109, 101, 32, 47, 32, 100, 101, 102>>  \* "/FontName / def"

MaxFiles == 2   \* regular files in the input tree

Rec(p, id, s) == [platformID |-> p, nameID |-> id, value |-> s]

LibNames(family, subfamily, full) ==
    [ok |-> TRUE,
     names |-> [id \in LibIDs |->
                  CASE id = 1 -> family [] id = 2 -> subfamily [] id = 4 -> full
                    [] OTHER -> NotFound]]

InputFile(name, dir, data, io, lib) ==
    [name |-> name, dir |-> dir, data |-> data, io |-> io, lib |-> lib]

HelveticaData ==
    WellFormed(<<Rec(3, 1, s_Helvetica), Rec(3, 2, s_Regular), Rec(3, 4, s_Helvetica)>>)
HelveticaLib == LibNames(Found(s_Helvetica), Found(s_Regular), Found(s_Helvetica))
ArialData ==
    WellFormed(<<Rec(3, 1, s_Arial), Rec(3, 2, s_Light), Rec(3, 4, s_ArialLight)>>)
ArialLib == LibNames(Found(s_Arial), Found(s_Light), Found(s_ArialLight))

FontFiles ==
    { \* two copies of one font under two names, and a third in a subdirectory
      InputFile(s_h1, <<>>, HelveticaData, "ok", HelveticaLib),
      InputFile(s_h2, <<>>, HelveticaData, "ok", HelveticaLib),
      InputFile(s_h3, <<s_sub>>, HelveticaData, "ok", HelveticaLib),
      \* a font with a .ttf extension and a style of its own
      InputFile(s_Arial_ttf, <<>>, ArialData, "ok", ArialLib),
      \* the same font without extension
      InputFile(s_al, <<>>, ArialData, "ok", ArialLib),
      \* a font whose style is made of a forbidden character
      InputFile(s_sl, <<>>,
                WellFormed(<<Rec(3, 1, s_Arial), Rec(3, 2, s_slash), Rec(3, 4, s_Arial)>>),
                "ok", LibNames(Found(s_Arial), Found(s_slash), Found(s_Arial))),
      \* fonts whose family name is a directory reference
      InputFile(s_dd, <<>>,
                WellFormed(<<Rec(3, 1, s_dotdot), Rec(3, 2, s_Regular), Rec(3, 4, s_x)>>),
                "ok", LibNames(Found(s_dotdot), Found(s_Regular), Found(s_x))),
      InputFile(s_d1, <<>>,
                WellFormed(<<Rec(3, 1, s_dot), Rec(3, 2, s_Regular), Rec(3, 4, s_x)>>),
                "ok", LibNames(Found(s_dot), Found(s_Regular), Found(s_x))),
      \* a font whose family name is the name of the run's log file
      InputFile(s_lf, <<>>,
                WellFormed(<<Rec(3, 1, s_logFileName), Rec(3, 2, s_Regular), Rec(3, 4, s_x)>>),
                "ok", LibNames(Found(s_logFileName), Found(s_Regular), Found(s_x))),
      \* the same font without extension, on a destination that fills up
      InputFile(s_nc, <<>>, ArialData, "nocopy", ArialLib),
      \* no signature, and a name whose stem is empty
      InputFile(s_dotpfa, <<>>, s_junk, "ok", LibFails),
      \* no signature, a <Family>-<Style> stem
      InputFile(s_Brevia, <<>>, s_junk, "ok", LibFails),
      \* the library rejects the font, its name table holds a full name only
      InputFile(s_nt4, <<>>, WellFormed(<<Rec(3, 4, s_XY)>>), "ok", LibFails),
      \* the library rejects the font, its name table is complete
      InputFile(s_nt1, <<>>, HelveticaData, "ok", LibFails),
      \* the library parses the font and finds no name in it
      InputFile(s_lib0, <<>>, WellFormed(<<Rec(1, 1, s_Arial)>>), "ok",
                LibNames(NotFound, NotFound, NotFound)),
      \* a file that cannot be read
      InputFile(s_bad, <<>>, HelveticaData, "unreadable", HelveticaLib),
      \* a corrupted table directory: no name tag, numTables 0x1000
      InputFile(s_pan, <<>>,
                PatchAll(WellFormed(<<>>), <<[at |-> 12, v |-> 0], [at |-> 4, v |-> 4096]>>),
                "ok", LibFails),
      \* Type 1 fonts, with a font name and with an empty one
      InputFile(s_t1_pfa, <<>>, s_type1hdr \o <<10>> \o s_fontNameFoo \o <<10>>,
                "ok", LibFails),
      InputFile(s_t1e_pfa, <<>>, s_type1hdr \o <<10>> \o s_fontNameEmpty \o <<10>>,
                "ok", LibFails) }

Variants == {"v1", "p0", "p12", "v2"}

\* the sequences of at most n distinct files
RECURSIVE Trees(_)
Trees(n) ==
    IF n = 0 THEN {<<>>}
    ELSE Trees(n - 1) \cup
         {Append(t, f) : t \in {u \in Trees(n - 1) : Len(u) = n - 1},
                         f \in FontFiles}

NoRepeat(t) == \A i, j \in 1..Len(t) : i # j => t[i] # t[j]

-----------------------------------------------------------------------------
(* The batch run                                                           *)

Init ==
    /\ variant \in Variants
    /\ files \in {t \in Trees(MaxFiles) : NoRepeat(t)}
    /\ pos = 0
    /\ pc = "start"
    /\ fs = <<>>
    /\ outcomes = <<>>
    /\ IdleNames /\ IdlePure

\* main before the loop: os.MkdirAll(outputDir), setupLogging (part_001,
\* main.go 277), ReadDir (main.go 26, part_001 31).  setupLogging creates
\* the log file in outputDir (os.Create, then the BOM) before the input
\* directory is read.  A walk whose root cannot be read reports it to
\* the callback, which returns nil.
Start ==
    /\ pc = "start"
    /\ \E env \in {"ok", "noOutputRoot", "noLog", "noBOM", "noInput"} :
          /\ env \in {"noLog", "noBOM"} => variant \in {"p12", "v2"}
          /\ pc' = CASE env = "ok" -> "walk"
                     [] env = "noInput" /\ variant \in {"p0", "v2"} -> "done"
                     [] OTHER -> "fatal"
          /\ fs' = IF variant \in {"p12", "v2"} /\ env \in {"ok", "noBOM", "noInput"}
                   THEN Put(fs, <<s_logFileName>>, <<>>, env # "noBOM")
                   ELSE fs
    /\ UNCHANGED <<variant, files, pos, outcomes, nameVars, pureVars>>

Record(r) ==
    /\ outcomes' = Append(outcomes, r.out)
    /\ fs' = r.tree
    /\ pos' = pos + 1

Skipped(f, why) ==
    [out |-> Outcome(f, why, "", NoMetadata, <<>>, NotParsed), tree |-> fs]

\* main.go 32-138: one round of the loop over ioutil.ReadDir(inputDir)
Visit_v1 ==
    /\ pc = "walk" /\ variant = "v1" /\ pos < Len(files)
    /\ LET f == files[pos + 1] IN
       Record(IF f.dir # <<>> THEN Skipped(f, "notEnumerated")
              ELSE processFontFile_old("v1", f, fs))
    /\ UNCHANGED <<variant, files, pc, nameVars, pureVars>>

\* part_000 25-39: one call of the WalkDir callback; the error of
\* processFontFile is returned to WalkDir, which stops, and main exits 1
Visit_p0 ==
    /\ pc = "walk" /\ variant = "p0" /\ pos < Len(files)
    /\ LET r == processFontFile_old("p0", files[pos + 1], fs) IN
       /\ Record(r)
       /\ pc' = IF r.out.status = "failed" THEN "fatal" ELSE pc
    /\ UNCHANGED <<variant, files, nameVars, pureVars>>

\* part_001 37-46: one round of the loop over os.ReadDir(inputDir)
Visit_p12 ==
    /\ pc = "walk" /\ variant = "p12" /\ pos < Len(files)
    /\ LET f == files[pos + 1] IN
       Record(IF f.dir # <<>> THEN Skipped(f, "notEnumerated")
              ELSE processFontFile_old("p12", f, fs))
    /\ UNCHANGED <<variant, files, pc, nameVars, pureVars>>

\* the extension filter, main.go 292-296
passesFilter(name) == ToLower(Ext(name)) \in {<<>>, s_pfa, s_pfb}

\* main.go 284-303: one call of the filepath.Walk callback
Visit_v2 ==
    /\ pc = "walk" /\ variant = "v2" /\ pos < Len(files)
    /\ LET f == files[pos + 1]
           r == IF passesFilter(f.name) THEN ProcessFontFile(f, fs)
                ELSE Skipped(f, "filtered")
       IN  /\ Record(r)
           /\ pc' = IF r.out.status = "panic" THEN "crashed" ELSE pc
    /\ UNCHANGED <<variant, files, nameVars, pureVars>>

\* the walk has visited every entry
Finish ==
    /\ pc = "walk" /\ pos = Len(files)
    /\ pc' = "done"
    /\ UNCHANGED <<variant, files, pos, fs, outcomes, nameVars, pureVars>>

Next == Start \/ Visit_v1 \/ Visit_p0 \/ Visit_p12 \/ Visit_v2 \/ Finish

Spec == Init /\ [][Next]_vars

-----------------------------------------------------------------------------
(* The batch run against the behaviour the documentation describes          *)

\* the i-th input reached the copy step and was written out
Copied(i) == outcomes[i].status = "copied"

\* inputs i and j carry the same font into the same directory: same bytes,
\* same library answers, same resolved metadata
SameFont(i, j) ==
    /\ files[i].data = files[j].data /\ files[i].lib = files[j].lib
    /\ files[i].dir = files[j].dir
    /\ outcomes[i].meta = outcomes[j].meta

\* C1: when two distinct input files resolve to the same family, full name
\* and extension, both are copied, the second under a numbered name, and
\* the first output is still the first file's copy.
C1_BothDuplicatesCopied ==
    \A i, j \in 1..Len(outcomes) :
        (i < j /\ SameFont(i, j) /\ Copied(i) /\ files[j].io = "ok"
               /\ outcomes[j].status \notin {"filtered", "notEnumerated"})
        => /\ Copied(j)
           /\ outcomes[j].dest # outcomes[i].dest
           /\ outcomes[i].dest \in DOMAIN fs
           /\ fs[outcomes[i].dest].from = outcomes[i].file

\* C4: the filename inferencer runs only after every structured stage
\* tried on the file has failed, that is, returned an error.
C4_InferencerOnlyAfterFailure ==
    \A i \in 1..Len(outcomes) :
        \A k \in 1..Len(outcomes[i].stages) :
            outcomes[i].stages[k].stage = "filename"
            => \A m \in 1..(k - 1) : outcomes[i].stages[m].err # ""

\* the i-th input was read and parsed by ProcessFontFile and went on to
\* the path computation with its backfilled metadata
Backfilled(i) ==
    /\ variant = "v2"
    /\ outcomes[i].status \in {"copied", "duplicate"}

\* C5: for every readable input file the metadata used after resolution
\* and backfill has a non-empty FamilyName, SubfamilyName and FullName.
C5_MetadataNeverEmpty ==
    \A i \in 1..Len(outcomes) :
        Backfilled(i)
        => /\ outcomes[i].meta.FamilyName # <<>>
           /\ outcomes[i].meta.SubfamilyName # <<>>
           /\ outcomes[i].meta.FullName # <<>>

\* C6: a failure on one input file does not end the run: the run ends
\* early only before the first file, when the output root cannot be
\* created or the input cannot be enumerated, and a finished run has
\* visited every file.
C6_PerFileFailureNotFatal ==
    /\ pc \in {"fatal", "crashed"} => outcomes = <<>>
    /\ pc = "done" /\ outcomes # <<>> => Len(outcomes) = Len(files)

\* C7: every regular file the walk finds is handed to font processing
\* whatever its extension; none is set aside for its extension.
C7_EveryExtensionProcessed ==
    \A i \in 1..Len(outcomes) : outcomes[i].status # "filtered"

-----------------------------------------------------------------------------
(* The pure functions on their own: each specification draws an input,     *)
(* applies the function and keeps the result in the state.                 *)

\* the batch-run variables while a function is exercised at position p
PureRun(p) ==
    /\ variant = "none" /\ files = <<>> /\ pos = 0 /\ pc = p
    /\ fs = <<>> /\ outcomes = <<>>

MaxNameLen == 3

\* a forbidden character, an underscore, a space, a tab and a letter
SanitizeAlphabet == {47, 95, 32, 9, 97}

RECURSIVE StringsUpTo(_, _)
StringsUpTo(alphabet, n) ==
    IF n = 0 THEN {<<>>}
    ELSE StringsUpTo(alphabet, n - 1) \cup
         {Append(s, c) : s \in {u \in StringsUpTo(alphabet, n - 1) : Len(u) = n - 1},
                         c \in alphabet}

InitSanitize ==
    /\ flavour \in Variants
    /\ text \in StringsUpTo(SanitizeAlphabet, MaxNameLen)
    /\ existing = {} /\ result = <<>>
    /\ PureRun("name") /\ IdleNames

\* safe := sanitizeFileName(name)
Sanitize ==
    /\ pc = "name"
    /\ result' = sanitizeFileName(flavour, text)
    /\ pc' = "once"
    /\ UNCHANGED <<variant, files, pos, fs, outcomes, nameVars, text, flavour, existing>>

\* sanitizeFileName(safe): the sanitized name is sanitized again
Resanitize ==
    /\ pc = "once"
    /\ text' = result
    /\ result' = sanitizeFileName(flavour, result)
    /\ pc' = "twice"
    /\ UNCHANGED <<variant, files, pos, fs, outcomes, nameVars, flavour, existing>>

NextSanitize == Sanitize \/ Resanitize

SpecSanitize == InitSanitize /\ [][NextSanitize]_vars

\* C8: in every variant of sanitizeFileName, sanitizing a sanitized name
\* gives the same name again, for every string.
C8_SanitizeIdempotent == pc = "twice" => result = text

-----------------------------------------------------------------------------

s_h_ttf == <<104, 46, 116, 116, 102>>  \* "h.ttf"
s_h == <<104>>  \* "h"

MaxWrites == 2

\* the separator of the numbered names in each generation
Separator(v) == IF v = "v2" THEN 32 ELSE 95

\* how many of the candidates 0, 1, 2, ... a destination directory holds
DirSizes == {0, 1, 2, 3, DupLimit_v2, DupLimit_v2 + 1, DupLimit_v2 + 2,
             maxAttempts - 1, maxAttempts, maxAttempts + 1, maxAttempts + 2}

\* a candidate taken out of a directory again
DirHoles == {0, 1, 2, DupLimit_v2 \div 2}

\* the directories: the first n candidates of name, possibly one missing
Directories(name, sep) ==
    LET full(n) == {Candidate(name, sep, i) : i \in 0..(n - 1)} IN
    {full(n) : n \in DirSizes} \cup
    {full(n) \ {Candidate(name, sep, h)} : n \in DirSizes, h \in DirHoles}

InitDup ==
    /\ flavour \in Variants
    /\ text \in {s_h_ttf, s_h}
    /\ \E present \in Directories(text, Separator(flavour)), denied \in BOOLEAN :
          existing = [present |-> present, denied |-> denied]
    /\ result = <<>>
    /\ PureRun("path") /\ IdleNames

\* finalPath, err := resolveDuplicate(outputPath)
Resolve ==
    /\ pc = "path"
    /\ result' = resolveDuplicate(flavour, existing, text)
    /\ pc' = "resolved"
    /\ UNCHANGED <<variant, files, pos, fs, outcomes, nameVars, text, flavour, existing>>

\* copyFile(inputPath, finalPath) creates the resolved name, and the same
\* destination is asked for once more
Create ==
    /\ pc = "resolved" /\ pos < MaxWrites
    /\ result.err = "" /\ ~result.dup
    /\ existing' = [existing EXCEPT !.present = @ \cup {result.name}]
    /\ pos' = pos + 1
    /\ pc' = "path"
    /\ UNCHANGED <<variant, files, fs, outcomes, nameVars, text, flavour, result>>

NextDup == Resolve \/ Create

SpecDup == InitDup /\ [][NextDup]_vars

\* the numbers of the candidates of text that the directory does not hold
FreeSuffixes ==
    {i \in 0..maxAttempts :
        Candidate(text, Separator(flavour), i) \notin existing.present}

\* C9: resolveDuplicate returns the unsuffixed candidate when it does not
\* exist, otherwise the candidate with the smallest absent suffix N >= 1;
\* it never returns an existing name, and it fails exactly when the
\* unsuffixed candidate and the suffixes 1 through 1000 all exist.
C9_SmallestFreeSuffix ==
    (pc = "resolved" /\ ~existing.denied)
    => IF FreeSuffixes = {}
       THEN result.err # ""
       ELSE /\ result.err = "" /\ ~result.dup
            /\ result.name \notin existing.present
            /\ result.name = Candidate(text, Separator(flavour),
                                 CHOOSE k \in FreeSuffixes : \A m \in FreeSuffixes : k <= m)

-----------------------------------------------------------------------------

s_LightItalic == <<76, 105, 103, 104, 116, 73, 116, 97, 108, 105, 99>>  \* "LightItalic"
s_light == <<108, 105, 103, 104, 116>>  \* "light"
s_BreviaWord == <<66, 114, 101, 118, 105, 97>>  \* "Brevia"
s_digits == <<54, 48, 57, 56, 49>>  \* "60981"
s_MyFontVF == <<77, 121, 70, 111, 110, 116, 86, 70>>  \* "MyFontVF"
s_Medium == <<77, 101, 100, 105, 117, 109>>  \* "Medium"

InferFamilies == {s_BreviaWord, s_Arial, s_MyFontVF, s_digits}
InferSeparators == {45, 95, 32}
InferStyles == {s_LightItalic, s_Light, s_Bold, s_Italic, s_Medium, s_Regular}

s_digits20 == <<57, 57, 57, 57, 57, 57, 57, 57, 57, 57, 57, 57, 57, 57, 57, 57, 57, 57, 57, 57>>  \* "99999999999999999999"
s_zero == <<48>>  \* "0"
s_d007 == <<48, 48, 55>>  \* "007"
s_Chidori == <<67, 104, 105, 100, 111, 114, 105, 45, 86, 70, 45, 67, 111, 110, 100, 101, 110, 115, 101, 100, 45, 69, 120, 116, 114, 97, 76, 105, 103, 104, 116>>  \* "Chidori-VF-Condensed-ExtraLight"
s_ChidoriEL == <<67, 104, 105, 100, 111, 114, 105, 45, 86, 70, 45, 69, 120, 116, 114, 97, 76, 105, 103, 104, 116>>  \* "Chidori-VF-ExtraLight"
s_ChidoriCEL == <<67, 104, 105, 100, 111, 114, 105, 45, 86, 70, 45, 67, 111, 110, 100, 101, 110, 115, 101, 100, 69, 120, 116, 114, 97, 76, 105, 103, 104, 116>>  \* "Chidori-VF-CondensedExtraLight"

\* stems made of decimal digits only: short ones, and the longest values
\* around the range of a 64-bit int
NumericStems == {s_digits, s_zero, s_d007, s_maxInt64, s_minInt64, s_digits20}

\* stems that name a style of several words
CompoundStems == {s_Chidori, s_ChidoriEL, s_ChidoriCEL}

\* the stems: a family alone, or a family, a separator and a style
InferStems ==
    InferFamilies \cup NumericStems \cup CompoundStems \cup
    {fam \o <<sep>> \o st : fam \in InferFamilies, sep \in InferSeparators,
                            st \in InferStyles}

\* the font types parseFont passes to inferMetadata
FontTypes == {"truetype", "opentype", "type1"}

InitInfer ==
    /\ flavour \in FontTypes
    /\ text \in InferStems
    /\ existing = {} /\ result = <<>>
    /\ PureRun("stem") /\ IdleNames

\* metadata := inferMetadata(filename, fontType)
Infer ==
    /\ pc = "stem"
    /\ result' = inferMetadata(text, flavour)
    /\ pc' = "inferred"
    /\ UNCHANGED <<variant, files, pos, fs, outcomes, nameVars, text, flavour, existing>>

NextInfer == Infer

SpecInfer == InitInfer /\ [][NextInfer]_vars

\* C10: inference on a stem <Family>-LightItalic gives a FamilyName that
\* contains the family word and a SubfamilyName that contains a style
\* word (Light or Italic), whatever the case, for every font type.
C10_FamilyAndStyleRecovered ==
    pc = "inferred"
    => \A fam \in InferFamilies :
          text = fam \o <<45>> \o s_LightItalic
          => /\ Contains(ToLower(result.FamilyName), ToLower(fam))
             /\ \/ Contains(ToLower(result.SubfamilyName), s_light)
                \/ Contains(ToLower(result.SubfamilyName), s_italic)

\* a non-empty string of decimal digits
OnlyDigits(s) == s # <<>> /\ \A i \in 1..Len(s) : s[i] \in 48..57

\* the styles of the vocabulary, and the default
StyleVocabulary == {styles[k] : k \in 1..Len(styles)} \cup {s_Regular}

\* C11: inference on a stem made only of decimal digits, of any length and
\* for every font type, gives FamilyName "Unknown VF", a SubfamilyName of
\* the style vocabulary or "Regular", and FullName = FamilyName, a space,
\* SubfamilyName.
C11_NumericStemIsUnknownVF ==
    (pc = "inferred" /\ OnlyDigits(text))
    => /\ result.FamilyName = s_UnknownVF
       /\ result.SubfamilyName \in StyleVocabulary
       /\ result.FullName = result.FamilyName \o <<32>> \o result.SubfamilyName

-----------------------------------------------------------------------------
(* The batch run: signatures, partial name tables, placement and logs       *)

\* the i-th input was read and handed to font processing
Processed(i) ==
    /\ files[i].io = "ok"
    /\ outcomes[i].status \notin {"filtered", "notEnumerated"}

\* the first bytes of the i-th input match no signature
UnknownSignature(i) == getFontType(files[i].data).err # ""

\* C12: a file whose first bytes match no signature is not skipped: it is
\* processed to a placement, and its output file has the extension .ttf.
C12_UnknownSignatureDefaultsToTtf ==
    \A i \in 1..Len(outcomes) :
        (Processed(i) /\ UnknownSignature(i))
        => /\ outcomes[i].status \in {"copied", "duplicate"}
           /\ outcomes[i].status = "copied"
              => Ext(outcomes[i].dest[Len(outcomes[i].dest)]) = s_ttf

-----------------------------------------------------------------------------
(* The name-table decoder on partial tables                                *)

\* the name ids the specification maps to a field
MappedIDs == {1, 2, 4, 6, 16, 17}

\* the well-formed buffer of recs holds a usable string for a mapped id
DecodesSomeString == \E i \in 1..Len(recs) : Usable(recs[i]) /\ recs[i].nameID \in MappedIDs

\* C13: the name-table decoder fails with "no metadata found" exactly when
\* it decoded no usable string; a table holding only some of the names,
\* or only nameID 6, is a success.
C13_NoMetadataOnlyWhenNothingDecoded ==
    buf.data = WellFormed(recs)
    => (decoded.err = "no metadata found" <=> ~DecodesSomeString)

\* the style part of a directory name: forbidden characters and spaces
\* replaced, separators trimmed, "Unknown" when nothing is left
StyleOf(subfamilyName) ==
    LET s == Trim(ReplaceInvalid(ReplaceAll(subfamilyName, 32, <<95>>), 95), {95, 32}) IN
    IF s = <<>> THEN s_Unknown ELSE s

\* the directory the output of metadata md belongs to
FamilyDirectory(v, md) ==
    IF md.SubfamilyName = <<>> \/ isRegularStyle(md.SubfamilyName)
    THEN sanitizeFileName(v, md.FamilyName)
    ELSE sanitizeFileName(v, md.FamilyName) \o <<95>> \o StyleOf(md.SubfamilyName)

\* C14: every output file lies in outputDir/<FamilyName> when the
\* SubfamilyName is empty or contains regular, italic or bold, and in
\* outputDir/<FamilyName>_<Style> otherwise, Style being the sanitized
\* SubfamilyName with underscores for spaces, or "Unknown".
C14_StyleSubdirectory ==
    \A i \in 1..Len(outcomes) :
        outcomes[i].status = "copied"
        => DirOf(outcomes[i].dest) = <<FamilyDirectory(variant, outcomes[i].meta)>>

-----------------------------------------------------------------------------
(* Filename inference against the style vocabulary                         *)

\* the normalized filename: lowercased, '-' and '_' turned into spaces,
\* whitespace collapsed
Normalized(filename) ==
    Join(Fields(ReplaceAll(ReplaceAll(ToLower(filename), 45, <<32>>), 95, <<32>>)), <<32>>)

\* the positions (0-based) at which sub occurs in s
Occurrences(s, sub) ==
    {i \in 0..(Len(s) - Len(sub)) : Slice(s, i, i + Len(sub)) = sub}

\* the styles of the vocabulary that occur in the normalized filename
StylesIn(filename) ==
    {k \in 1..Len(styles) : Occurrences(Normalized(filename), styles[k]) # {}}

\* a variable-font candidate whose name is not a number
Candidate_VF(filename, fontType) ==
    /\ ~OnlyDigits(filename)
    /\ fontType = "opentype" \/ Contains(Normalized(filename), s_vf)

\* C15: for a variable-font candidate the SubfamilyName is the first style
\* of the ordered vocabulary that occurs in the normalized filename, so
\* that a longer style wins over a shorter one it contains, and the
\* FamilyName is the words before that style.
C15_LongestStyleWins ==
    (pc = "inferred" /\ Candidate_VF(text, flavour) /\ StylesIn(text) # {})
    => LET first == styles[CHOOSE k \in StylesIn(text) : \A m \in StylesIn(text) : k <= m]
           at    == CHOOSE i \in Occurrences(Normalized(text), first) :
                        \A j \in Occurrences(Normalized(text), first) : i <= j
       IN  /\ result.SubfamilyName = first
           /\ at > 0 => result.FamilyName = TrimSpace(Slice(Normalized(text), 0, at))

-----------------------------------------------------------------------------
(* The Type 1 decoder on its own                                           *)

s_Foo == <<70, 111, 111>>  \* "Foo"
s_FooBold == <<70, 111, 111, 45, 66, 111, 108, 100>>  \* "Foo-Bold"
s_FooItalic == <<70, 111, 111, 45, 73, 116, 97, 108, 105, 99>>  \* "Foo-Italic"
s_FooBoldItalic == <<70, 111, 111, 45, 66, 111, 108, 100, 73, 116, 97, 108, 105, 99>>  \* "Foo-BoldItalic"
s_def == <<32, 100, 101, 102>>  \* " def"
s_comment == <<37, 37, 84, 105, 116, 108, 101>>  \* "%%Title"

\* the six bytes that open the ASCII segment of a PFB file: 0x80, 0x01 and
\* a 32-bit length
s_pfbSegment == <<128, 1, 0, 16, 0, 0>>

\* "F\xa0x", a name with a byte that is no UTF-8 sequence, and
\* "F\xc2\xa0x", a name with a no-break space
s_F_A0_x == <<70, 160, 120>>
s_F_nbsp_x == <<70, 194, 160, 120>>

\* "\u0130talic" in UTF-8, a name whose capital is not ASCII
s_Italic_dotted == <<196, 176, 116, 97, 108, 105, 99>>

Type1Names == {s_Foo, s_FooBold, s_FooItalic, s_FooBoldItalic, <<>>,
               s_F_A0_x, s_F_nbsp_x, s_Italic_dotted}

\* the numbers of comment lines between the header and the /FontName line,
\* around the end of the scanned window
Type1Fillers == {0, 1, 2, Type1ScanLines - 3, Type1ScanLines - 2,
                 Type1ScanLines - 1, Type1ScanLines}

RECURSIVE Repeat(_, _)
Repeat(s, n) == IF n = 0 THEN <<>> ELSE s \o Repeat(s, n - 1)

\* a Type 1 file: header line, k comment lines, the /FontName line, a tail
Type1File(prefix, k, name) ==
    prefix \o s_type1hdr \o <<10>> \o Repeat(s_comment \o <<10>>, k)
           \o s_FontName \o <<32, 47>> \o name \o s_def \o <<10>> \o s_comment \o <<10>>

Type1Files ==
    {Type1File(prefix, k, name) :
        prefix \in {<<>>, s_pfbSegment}, k \in Type1Fillers, name \in Type1Names}
    \cup {prefix \o s_type1hdr \o <<10>> \o s_comment \o <<10>> :
             prefix \in {<<>>, s_pfbSegment}}

InitType1 ==
    /\ text \in Type1Files
    /\ flavour = getFontType(text).fontType
    /\ existing = {} /\ result = <<>>
    /\ PureRun("data") /\ IdleNames

\* metadata, err := parseType1Font(data)
ParseType1 ==
    /\ pc = "data"
    /\ result' = parseType1Font(text)
    /\ pc' = "type1"
    /\ UNCHANGED <<variant, files, pos, fs, outcomes, nameVars, text, flavour, existing>>

NextType1 == ParseType1

SpecType1 == InitType1 /\ [][NextType1]_vars

\* the lines of the scanned window: the first Type1ScanLines lines
WindowLines(data) ==
    LET lines == SplitN(data, 10, Len(data) + 1) IN
    Slice(lines, 0, Min2(Len(lines), Type1ScanLines))

\* the first line of the window that begins with /FontName, 0 if none
FontNameLine(data) ==
    LET hits == {k \in 1..Len(WindowLines(data)) : HasPrefix(WindowLines(data)[k], s_FontName)} IN
    IF hits = {} THEN 0 ELSE CHOOSE k \in hits : \A m \in hits : k <= m

\* the token following /FontName on a line, without its leading slash
FontNameToken(line) ==
    LET tokens == Fields(StringOf(line)) IN
    IF Len(tokens) >= 2 THEN TrimPrefix(tokens[2], <<47>>) ELSE <<>>

\* C16: for every Type-1-signed file, ASCII or binary, with a /FontName
\* line among its first 50 lines the Type 1 decoder succeeds with
\* FamilyName = FullName = the token after /FontName and the style Italic,
\* Bold or Regular read from the name; it fails only when the window
\* holds no such line.
C16_Type1FontNameDecoded ==
    (pc = "type1" /\ flavour = "type1")
    => IF FontNameLine(text) = 0
       THEN result.err # ""
       ELSE LET name == FontNameToken(WindowLines(text)[FontNameLine(text)]) IN
            /\ result.err = ""
            /\ result.meta.FamilyName = name /\ result.meta.FullName = name
            /\ result.meta.SubfamilyName =
                  (IF Contains(ToLower(name), s_italic) THEN s_Italic
                   ELSE IF Contains(ToLower(name), s_bold) THEN s_Bold
                   ELSE s_Regular)

-----------------------------------------------------------------------------
(* The log of the resolver                                                  *)

\* the log lines parseFont writes when it gives up a stage
StageMessages(stage) ==
    CASE stage = "signature" -> {"Invalid font signature"}
      [] stage = "type1"     -> {"Failed to parse Type 1 metadata"}
      [] stage = "sfnt"      -> {"Failed to parse font", "Failed to extract metadata"}
      [] stage = "nameTable" -> {"Failed to parse name table"}
      [] OTHER               -> {}

\* the lines of a log that report a stage given up, in the order written
StageLog(log) ==
    LET reports(l) == \E st \in {"signature", "type1", "sfnt", "nameTable"} :
                          l.msg \in StageMessages(st)
    IN  SelectSeq(log, reports)

\* C17: on every path through parseFont that ends in filename inference,
\* each stage given up before it has written one log line, in order,
\* that carries the stage's own error; no stage is given up without an
\* error reason in the log.
C17_EveryFailedStageLogged ==
    \A i \in 1..Len(outcomes) :
        LET st == outcomes[i].stages
            lg == StageLog(outcomes[i].log)
        IN  (st # <<>> /\ st[Len(st)].stage = "filename")
            => /\ Len(lg) = Len(st) - 1
               /\ \A m \in 1..(Len(st) - 1) :
                     /\ lg[m].msg \in StageMessages(st[m].stage)
                     /\ lg[m].arg # ""
                     /\ lg[m].arg = st[m].err

-----------------------------------------------------------------------------
(* Two instances of the program on one output directory                    *)

s_a_ttf == <<97, 46, 116, 116, 102>>  \* "a.ttf"

MaxInputs == 1

Instances == {1, 2}

\* the output file names the inputs of an instance resolve to
RaceNames == {s_h_ttf, s_a_ttf}

\* the lengths of an input file; the inputs of instance p hold the byte
\* 64 + p
InputLens == {1, 2, 3}

InputData(p, n) == [k \in 1..n |-> 64 + p]

\* a file of the shared output directory: the input whose copyFile
\* created it last, and its bytes
OutputFile(from, data) == [from |-> from, data |-> data]

\* what an earlier run left in the output directory
EarlierRun == OutputFile(<<0, 0>>, <<48>>)

\* the outcome of one input of instance `by`: op is "copied" or "failed",
\* path the output name it was copied to.  over tells that its os.Create
\* found a file under the name or that a piece of it was written where
\* the file already held bytes; alone tells that no other instance took a
\* step between the resolution of the name and the end of the copy.
Event(p, op, path, over, alone) ==
    [by |-> p, op |-> op, path |-> path, over |-> over, alone |-> alone]

\* the copy an instance is at: the output name resolveDuplicate returned,
\* the offset of its descriptor (the number of bytes written so far), and
\* what its outcome will tell
Copying(name, written, over, alone) ==
    [name |-> name, written |-> written, over |-> over, alone |-> alone]

\* instance q is between the resolution of a name and the end of its copy
Busy(q) == pc[q] # "resolve"

\* instance p takes a step beside the copies of the other instances
Beside(p) == \E q \in Instances \ {p} : Busy(q)

\* the copies after a step of p that leaves p's copy as `own`
AfterStep(p, own) ==
    [q \in Instances |->
        IF q = p THEN own
        ELSE IF Busy(q) THEN [result[q] EXCEPT !.alone = FALSE]
        ELSE result[q]]

InitRace ==
    /\ variant = "v1"
    /\ files \in [Instances -> StringsUpTo(RaceNames, MaxInputs)]
    /\ pos = [p \in Instances |-> 0]
    /\ pc = [p \in Instances |-> "resolve"]
    /\ fs \in {<<>>, [path \in {<<s_h_ttf>>} |-> EarlierRun]}
    /\ outcomes = <<>>
    /\ result = [p \in Instances |-> Copying(<<>>, 0, FALSE, TRUE)]
    /\ \E lens \in [Instances -> InputLens] :
          text = [p \in Instances |-> InputData(p, lens[p])]
    /\ flavour = "none" /\ existing = {}
    /\ IdleNames

\* main.go 125-129: instance p asks resolveDuplicate for the output path
\* of its next input
ResolveBy(p) ==
    /\ pc[p] = "resolve" /\ pos[p] < Len(files[p])
    /\ LET r == resolveDuplicate_v1(Listing(fs, <<>>), files[p][pos[p] + 1]) IN
       IF r.err # ""
       THEN /\ pos' = [pos EXCEPT ![p] = @ + 1]
            /\ outcomes' = Append(outcomes, Event(p, "failed", <<>>, FALSE, ~Beside(p)))
            /\ result' = AfterStep(p, result[p])
            /\ UNCHANGED pc
       ELSE /\ result' = AfterStep(p, Copying(r.name, 0, FALSE, ~Beside(p)))
            /\ pc' = [pc EXCEPT ![p] = "create"]
            /\ UNCHANGED <<pos, outcomes>>
    /\ UNCHANGED <<variant, files, fs, nameVars, text, flavour, existing>>

\* copyFile 228-238: os.Create makes the file or truncates the file that
\* holds the name
CreateBy(p) ==
    /\ pc[p] = "create"
    /\ LET path == <<result[p].name>> IN
       /\ fs' = [q \in DOMAIN fs \cup {path} |->
                    IF q = path THEN OutputFile(<<p, pos[p] + 1>>, <<>>) ELSE fs[q]]
       /\ result' = AfterStep(p, [result[p] EXCEPT
                                     !.over = path \in DOMAIN fs,
                                     !.alone = @ /\ ~Beside(p)])
    /\ pc' = [pc EXCEPT ![p] = "write"]
    /\ UNCHANGED <<variant, files, pos, outcomes, nameVars, text, flavour, existing>>

\* the bytes of a file after `piece` is written at offset `at`: a gap
\* between the end of the file and the offset reads as zeroes, the bytes
\* past the piece stay
WriteAt(old, at, piece) ==
    LET end == at + Len(piece) IN
    [k \in 1..Max2(Len(old), end) |->
        IF k > at /\ k <= end THEN piece[k - at]
        ELSE IF k <= Len(old) THEN old[k]
        ELSE 0]

\* copyFile 240-250: io.Copy moves the input in pieces, each written at
\* the offset of the descriptor that os.Create returned, into whatever the
\* file holds by then.  One step is one piece, of any size up to what is
\* left; with the last piece copyFile ends (os.Stat, os.Chmod, Close)
\* and main goes to the next input.
WriteBy(p) ==
    /\ pc[p] = "write"
    /\ LET path == <<result[p].name>>
           old  == fs[path].data
           at   == result[p].written
       IN  \E n \in 1..(Len(text[p]) - at) :
              LET last == at + n = Len(text[p])
                  own  == [result[p] EXCEPT !.written = at + n,
                                            !.over = @ \/ Len(old) > at,
                                            !.alone = @ /\ ~Beside(p)]
              IN  /\ fs' = [fs EXCEPT ![path].data =
                               WriteAt(old, at, SubSeq(text[p], at + 1, at + n))]
                  /\ result' = AfterStep(p, own)
                  /\ outcomes' = IF last
                                 THEN Append(outcomes, Event(p, "copied", own.name,
                                                             own.over, own.alone))
                                 ELSE outcomes
                  /\ pos' = [pos EXCEPT ![p] = IF last THEN @ + 1 ELSE @]
                  /\ pc' = [pc EXCEPT ![p] = IF last THEN "resolve" ELSE "write"]
    /\ UNCHANGED <<variant, files, nameVars, text, flavour, existing>>

NextRace == \E p \in Instances : ResolveBy(p) \/ CreateBy(p) \/ WriteBy(p)

SpecRace == InitRace /\ [][NextRace]_vars

\* some copy, ended or under way, replaced a file that was already there
\* or wrote over the bytes of another copy
Overwritten ==
    \/ \E c \in 1..Len(outcomes) : outcomes[c].over
    \/ \E p \in Instances : Busy(p) /\ result[p].over

\* strictly sequential processing: from the resolution of an output name
\* to the last piece of its copy no other instance takes a step
Sequential ==
    /\ \A c \in 1..Len(outcomes) : outcomes[c].alone
    /\ \A p \in Instances : Busy(p) => result[p].alone

\* C18: duplicate resolution followed by the copy is a check-then-create
\* that is not atomic: a copy is overwritten only in runs where the two
\* instances interleave between the check and the end of the copy;
\* strictly sequential processing never overwrites.
C18_OverwriteOnlyWhenInterleaved == Overwritten => ~Sequential

\* both instances found h.ttf unused, both wrote it, and the copy of the
\* first instance is gone
C18_Witness ==
    /\ outcomes = <<Event(1, "copied", s_h_ttf, FALSE, FALSE),
                    Event(2, "copied", s_h_ttf, TRUE, FALSE)>>
    /\ fs[<<s_h_ttf>>] = OutputFile(<<2, 1>>, text[2])
    /\ \A path \in DOMAIN fs : fs[path].data # text[1]

-----------------------------------------------------------------------------
(* The sanitized names                                                      *)

\* the characters a variant removes from both ends: the white space of
\* strings.Fields in fontprocessor.go 392, the cutset "_ " of strings.Trim
\* in the older variants
TrimmedChars(v) == IF v = "v2" THEN SpaceSet ELSE {95, 32}

\* replacing the forbidden characters of name and trimming leaves nothing
NothingLeft(v, name) ==
    Trim(ReplaceInvalid(name, IF v = "v2" THEN 32 ELSE 95), TrimmedChars(v)) = <<>>

\* C19: in every variant the result of sanitizeFileName is non-empty,
\* holds none of the forbidden characters, neither starts nor ends with a
\* separator or a space, and is the literal "unnamed"/"Unnamed" whenever
\* replacing and trimming leaves nothing.
C19_SanitizedNameIsSafe ==
    pc = "once"
    => /\ result # <<>>
       /\ \A i \in 1..Len(result) : result[i] \notin invalidChars
       /\ result[1] \notin TrimmedChars(flavour)
       /\ result[Len(result)] \notin TrimmedChars(flavour)
       /\ NothingLeft(flavour, text) => result \in {s_unnamed, s_Unnamed}

-----------------------------------------------------------------------------
(* Destinations stay inside the output tree                                 *)

\* a cleaned path relative to outputDir that names a file of exactly one
\* directory of outputDir: two elements, none of them "." or ".."
InsideOneDirectory(path) ==
    /\ Len(path) = 2
    /\ \A k \in 1..Len(path) : path[k] \notin {s_dot, s_dotdot}

\* C20: whatever names the font supplies, a FamilyName or FullName of "."
\* or ".." included, every copy lands at outputDir/<one family
\* directory>/<file>, never outside the output tree nor directly in it.
C20_DestinationInsideOutputDir ==
    \A i \in 1..Len(outcomes) :
        outcomes[i].status = "copied" => InsideOneDirectory(outcomes[i].dest)

====
